---- MODULE Spec2Model ----
(***************************************************************************)
(* Attendance recognition pipeline of src/src/api/attendance.py:           *)
(* process_frame with its per-session tracking cache, the attendance       *)
(* tables of src/src/models.py, and the session / record administration    *)
(* handlers that share those tables.                                       *)
(*                                                                         *)
(* Time is counted in ticks, TicksPerSecond ticks to the second.           *)
(* Confidences are hundredths (70 stands for 0.70).                        *)
(***************************************************************************)
EXTENDS Integers, Sequences, FiniteSets, Bags, TLC

\* ---------------------------------------------------------------- bounds
TicksPerSecond == 2
MaxTime == 1
MaxFaces == 1
MaxFacesCache == 2
MaxFacesRace == 1
MaxTimeStale == 2
MaxCallers == 3
MaxFacesFrame == 2
MaxSets == 2
MaxWaits == 1
MaxRegistrations == 3
MaxKnown == 2
EuclidUnit == 7

\* ------------------------------------------------------------- constants
SecondsPerMinute == 60
MinConfPct == 70
DefaultPresentWindow == 5
DefaultLateWindow == 15
DlibLen == 128
ResNetLen == 512
CosineThresholdPct == 30

TicksPerMinute == SecondsPerMinute * TicksPerSecond

Workers == {1, 2}
Callers == 1 .. MaxCallers
SessionIds == {1, 2}
Students == {"s1", "s2"}
None == "None"
AdminUser == "admin"

NameOf(id) == IF id = "s1" THEN "A" ELSE IF id = "s2" THEN "B" ELSE None

\* AttendanceStatus / SessionStatus enums
AttendanceStatus == {"present", "late", "absent"}
SessionStatus == {"scheduled", "active", "completed"}

\* Outcomes of FaceMatcher.recognize_face: an accepted identity with a
\* confidence at or above the regime's threshold, or no identity with the
\* best confidence observed.
Accepted(s, c) == [id |-> s, name |-> NameOf(s), conf |-> c]
Rejected(c) == [id |-> None, name |-> None, conf |-> c]

\* What the crop of one detection yields: no encoding (extraction failed),
\* or an encoding, identified here with the matcher's answer to it.
NoEncoding == [none |-> TRUE]

\* recognize_face when the comparison raises: the except branch answers
\* (None, None, 0.0).
MatcherError == Rejected(0)

\* The inputs the specifications below draw from.
\* Detector boxes are (x1, y1, x2, y2) with x1 < x2 and y1 < y2.  In FacesCache
\* the middle box overlaps the first with IOU 2/3 and the last with IOU 17/23;
\* the two outer ones overlap with IOU 13/27, below the 0.6 threshold.
OneBox == {<<0, 0, 10, 10>>}
FacesRecord ==
    [box : OneBox,
     enc : {Accepted("s1", 70), Accepted("s2", 70), Accepted("s1", 50),
            Rejected(20), NoEncoding}]
FacesCache ==
    [box : {<<0, 0, 20, 10>>, <<7, 0, 27, 10>>}, enc : {Accepted("s1", 70)}]
        \cup [box : {<<4, 0, 24, 10>>}, enc : {Accepted("s2", 70)}]
FacesRace ==
    [box : OneBox, enc : {Accepted("s1", 70), Accepted("s2", 70)}]
FacesMixed ==
    [box : {<<20, 0, 30, 10>>}, enc : {NoEncoding, MatcherError}]
        \cup [box : OneBox, enc : {Accepted("s1", 70), Accepted("s2", 70)}]
FacesStale == [box : OneBox, enc : {Accepted("s1", 70)}]
FacesSerial ==
    {[box |-> <<0, 0, 20, 10>>, enc |-> Accepted("s1", 70)],
     [box |-> <<4, 0, 24, 10>>, enc |-> Accepted("s2", 70)]}

Max(a, b) == IF a >= b THEN a ELSE b
Min(a, b) == IF a <= b THEN a ELSE b

\* --------------------------------------------------------- calculate_iou
\* The quotient intersection / union, kept as numerator and denominator.
calculate_iou(box1, box2) ==
    LET x_left == Max(box1[1], box2[1])
        y_top == Max(box1[2], box2[2])
        x_right == Min(box1[3], box2[3])
        y_bottom == Min(box1[4], box2[4])
        intersection_area == (x_right - x_left) * (y_bottom - y_top)
        box1_area == (box1[3] - box1[1]) * (box1[4] - box1[2])
        box2_area == (box2[3] - box2[1]) * (box2[4] - box2[2])
    IN IF x_right < x_left \/ y_bottom < y_top
       THEN [num |-> 0, den |-> 1]
       ELSE [num |-> intersection_area,
             den |-> box1_area + box2_area - intersection_area]

\* iou > 0.6
IouAccepted(iou) == iou.num * 10 > 6 * iou.den

\* Order of two quotients (denominators are positive).
IouLess(a, b) == a.num * b.den < b.num * a.den

\* current_time - entry['timestamp'] < 0.5  (seconds)
EntryLive(current, timestamp) == 2 * (current - timestamp) < TicksPerSecond

VARIABLES
    now,                \* wall clock, ticks
    sessions,           \* attendance_sessions table: id -> row or NoSession
    records,            \* attendance_records table: a bag of rows
    heap,               \* cache entry objects (dicts), by address
    recognition_cache,  \* session id -> list of entry addresses
    pc,                 \* per worker: position in process_frame
    session_id,         \* per worker: request.form['session_id']
    current_time,       \* per worker: current_time read at entry
    new_cache_entries,  \* per worker: list of entry addresses
    recognitions,       \* per worker: the response list being built
    n_faces,            \* per worker: detections consumed so far
    pending,            \* per worker: locals held between query and commit
    resp,               \* per worker: HTTP status of the last response
    call_status,        \* ghost: session status seen when the call began
    base,               \* ghost: the session's live entries when the call began
    frame,              \* ghost: the detections the call has consumed
    rivals,             \* ghost: the calls in progress when the call began
    last,               \* ghost: what happened to the last detection
    detector,           \* the global detector: Null or Some(object)
    matcher,            \* the global matcher: Null or Some(object)
    loaded,             \* the matcher objects whose known faces are loaded
    constructed,        \* how many detectors and matchers have been built
    gm_pc,              \* per caller: position in get_models
    obtained,           \* per caller: the pair get_models returned
    create_call,        \* ghost: the last create_session request and response
    known_face_encodings, \* the matcher's store: embeddings,
    known_face_ids,     \*   ids and
    known_face_names,   \*   names and
    known_face_metadata, \*  metadata, in insertion order
    add_call,           \* ghost: the last add_known_face call made since the
                        \*   database was loaded, and what it returned
    face_encoding,      \* the argument of the last recognize_face call made
                        \*   since the store changed
    recognized,         \* what that call returned
    database_path,      \* the file of the last load_known_faces call made
                        \*   since a face was added
    enrollments,        \* the enrollments table: rows (class_id, student_id)
    report,             \* ghost: the last GET /sessions/<id>/records, with the
                        \*   rows it read and the list it returned
    _config,            \* ConfigManager._config: a tree of dicts
    config_sets,        \* the number of ConfigManager.set calls so far
    config_call,        \* ghost: the last ConfigManager call, its result and
                        \*   the call before it
    attendance_records, \* SimpleAttendanceSystem: student id -> entry
    session_start,      \* SimpleAttendanceSystem: Null or Some(time)
    liveness_detector,  \* SimpleAttendanceSystem: Null or Some(detector)
    simple_call,        \* ghost: the last SimpleAttendanceSystem.process_frame
                        \*   call, its faces and what became of each
    active_session_id,  \* AttendanceSystem: Null or Some(session id)
    processed_students, \* AttendanceSystem: the ids recorded in the session
    last_process_time,  \* AttendanceSystem: id -> Null or Some(time)
    failed_students,    \* ghost: the ids whose record the database refused
                        \*   to commit in the session
    resources,          \* ResourceManager.resources, in insertion order
    lock,               \* ResourceManager.lock: Null or Some(holder)
    rm_pc,              \* per thread: position in a ResourceManager call
    rm_call,            \* per thread: the call in progress
    rm_result,          \* ghost, per thread: how the last cleanup_all returned
    registrations       \* the number of resources created so far

vars == <<now, sessions, records, heap, recognition_cache,
          pc, session_id, current_time, new_cache_entries, recognitions,
          n_faces, pending, resp, call_status, base, frame, rivals, last,
          detector, matcher, loaded, constructed, gm_pc, obtained,
          create_call, known_face_encodings, known_face_ids, known_face_names,
          known_face_metadata, add_call,
          face_encoding, recognized, database_path,
          enrollments, report, _config, config_sets, config_call,
          attendance_records, session_start, liveness_detector, simple_call,
          active_session_id, processed_students, last_process_time,
          failed_students,
          resources, lock, rm_pc, rm_call, rm_result, registrations>>

dbVars == <<sessions, records>>
cacheVars == <<heap, recognition_cache, new_cache_entries>>
frameVars == <<pc, session_id, current_time, recognitions, n_faces, pending,
               resp, call_status, last>>
ghostVars == <<base, frame, rivals>>
modelVars == <<detector, matcher, loaded, constructed, gm_pc, obtained>>
storeVars == <<known_face_encodings, known_face_ids, known_face_names,
               known_face_metadata>>
matcherVars == <<storeVars, face_encoding, recognized, database_path, add_call>>
pipelineVars == <<now, dbVars, cacheVars, frameVars, ghostVars, create_call>>
reportVars == <<enrollments, report>>
configVars == <<_config, config_sets, config_call>>
simpleVars == <<attendance_records, session_start, liveness_detector,
                simple_call>>
cameraVars == <<active_session_id, processed_students, last_process_time,
                failed_students>>
resourceVars == <<resources, lock, rm_pc, rm_call, rm_result, registrations>>
sideVars == <<reportVars, configVars, simpleVars, cameraVars, resourceVars>>
requestVars == <<pipelineVars, matcherVars, sideVars>>
apiVars == <<pipelineVars, matcherVars, modelVars>>

NoSession == [status |-> "missing"]
Free == [free |-> TRUE]
NoPending == [none |-> TRUE]
NoDetection == [none |-> TRUE]
NoRow == [none |-> TRUE]
NoModels == [none |-> TRUE]
NoCall == [none |-> TRUE]

\* A nullable column: Null, or Some(v).
Null == <<>>
Some(v) == <<v>>

MaxObjs == (Cardinality(SessionIds) + Cardinality(Workers)) * (MaxFacesCache + 1)
ObjIds == 1 .. MaxObjs

\* ------------------------------------------------- entry objects (dicts)
\* Python lists hold references: the same dict can sit in the session's
\* list and in a request's new_cache_entries, and is updated in place.
\* Addresses are renumbered in order of first reference after every step and
\* unreferenced objects are dropped (reference counting).
Range(s) == {s[i] : i \in 1 .. Len(s)}

RECURSIVE SortedSeq(_)
SortedSeq(S) ==
    IF S = {} THEN <<>>
    ELSE LET m == CHOOSE x \in S : \A y \in S : x <= y
         IN <<m>> \o SortedSeq(S \ {m})

RECURSIVE Flatten(_, _)
Flatten(f, keys) ==
    IF keys = <<>> THEN <<>> ELSE f[Head(keys)] \o Flatten(f, Tail(keys))

RECURSIVE Dedupe(_)
Dedupe(s) ==
    IF s = <<>> THEN <<>>
    ELSE LET r == Dedupe(SubSeq(s, 1, Len(s) - 1))
         IN IF s[Len(s)] \in Range(r) THEN r ELSE Append(r, s[Len(s)])

IndexOf(d, o) == CHOOSE i \in 1 .. Len(d) : d[i] = o

RECURSIVE Renamed(_, _)
Renamed(s, d) ==
    IF s = <<>> THEN <<>> ELSE <<IndexOf(d, Head(s))>> \o Renamed(Tail(s), d)

Normalize(h, c, ne) ==
    LET d == Dedupe(Flatten(c, SortedSeq(SessionIds))
                    \o Flatten(ne, SortedSeq(Workers)))
    IN [heap |-> [o \in ObjIds |-> IF o <= Len(d) THEN h[d[o]] ELSE Free],
        cache |-> [s \in SessionIds |-> Renamed(c[s], d)],
        new |-> [w \in Workers |-> Renamed(ne[w], d)]]

FreeAddress(h) == CHOOSE o \in ObjIds : h[o] = Free /\ \A p \in 1 .. o - 1 : h[p] # Free

\* The entries of one session's list, by value.
CacheEntries(c, h, s) == [i \in 1 .. Len(c[s]) |-> h[c[s][i]]]

\* A list of entries by value, each with the position of the first item that
\* is the same object.
Aliased(lst, h) ==
    [i \in 1 .. Len(lst) |->
        [e |-> h[lst[i]],
         first |-> CHOOSE j \in 1 .. i :
                      lst[j] = lst[i] /\ \A k \in 1 .. j - 1 : lst[k] # lst[i]]]

\* ---------------------------------------------------- attendance tables
SessionRow(st, start, p, l) ==
    [status |-> st, start_time |-> start, end_time |-> Null,
     present_window_minutes |-> p, late_window_minutes |-> l,
     class_id |-> 1]

RowsOf(recs, s, x) ==
    {r \in BagToSet(recs) : r.session_id = s /\ r.student_id = x}

\* Number of attendance_records rows for (session, student).
RowCount(recs, s, x) ==
    LET rows == RowsOf(recs, s, x)
    IN BagCardinality([r \in rows |-> recs[r]])

\* Faulty variant: the query looks for manual records only and misses automatic ones.
ExistingRecordManualOnly(recs, s, x) ==
    LET rows == {r \in BagToSet(recs) :
                   r.session_id = s /\ r.student_id = x /\ r.manual_override}
    IN IF rows = {} THEN NoRow ELSE CHOOSE r \in rows : TRUE

\* AttendanceRecord.query.filter_by(session_id, student_id).first()
ExistingRecord(recs, s, x) ==
    IF RowsOf(recs, s, x) = {} THEN NoRow
    ELSE CHOOSE r \in RowsOf(recs, s, x) : TRUE

\* AttendanceRecord.__table_args__: unique_session_student; the foreign key
\* on session_id is checked by the same INSERT.
\* Faulty variant: the table without unique_session_student.
NoUniqueConstraint(recs, sess, row) == sess[row.session_id] # NoSession

InsertAllowed(recs, sess, row) ==
    /\ sess[row.session_id] # NoSession
    /\ RowCount(recs, row.session_id, row.student_id) = 0

AddRow(recs, row) == recs (+) SetToBag({row})

\* Faulty variant: the table without check_windows_order.
WindowsPositive(row) ==
    /\ row.present_window_minutes > 0
    /\ row.late_window_minutes > 0

\* AttendanceSession.__table_args__: check_present_window_positive,
\* check_late_window_positive, check_windows_order.
SessionChecks(row) ==
    /\ row.present_window_minutes > 0
    /\ row.late_window_minutes > 0
    /\ row.present_window_minutes < row.late_window_minutes

\* data.get(key, default): the value sent, or the default when the key is
\* absent.
Get(value, default) == IF value = Null THEN default ELSE value[1]

\* The id the sequence gives the next attendance_sessions row.
FreeSessionIds(sess) == {s \in SessionIds : sess[s] = NoSession}
NewSessionId(sess) ==
    CHOOSE s \in FreeSessionIds(sess) : \A t \in FreeSessionIds(sess) : s <= t

\* Faulty variant: a later detection reconciles the record to an automatic one.
ExistingReconciled(recs, existing) ==
    (recs (-) SetToBag({existing}))
       (+) SetToBag({[existing EXCEPT !.status = "present",
                                      !.manual_override = FALSE]})

\* Lines 269-270: the record found by the query is read, not written.
ExistingKept(recs, existing) == recs

DeleteRowsOfSession(recs, s) ==
    LET keep == {r \in BagToSet(recs) : r.session_id # s}
    IN [r \in keep |-> recs[r]]

\* Faulty variant: the present boundary exclusive.
WindowStatusStrict(elapsed, p, l) ==
    IF elapsed < p * TicksPerMinute THEN "present"
    ELSE IF elapsed <= (p + l) * TicksPerMinute THEN "late"
    ELSE "absent"

\* Faulty variant: a detection after both windows still marked late.
WindowStatusLenient(elapsed, p, l) ==
    IF elapsed <= p * TicksPerMinute THEN "present" ELSE "late"

\* ------------------------------------------------ session window policy
\* elapsed_minutes = (now - start_time).total_seconds() / 60.0, compared
\* with the two windows; elapsed is in ticks here.
WindowStatus(elapsed, p, l) ==
    IF elapsed <= p * TicksPerMinute THEN "present"
    ELSE IF elapsed <= (p + l) * TicksPerMinute THEN "late"
    ELSE "absent"

\* Faulty variant: only an identical box is a hit.
CacheLookupExact(lst, h, box) ==
    LET hits == {i \in 1 .. Len(lst) : h[lst[i]].box = box}
    IN IF hits = {} THEN 0 ELSE CHOOSE i \in hits : \A j \in hits : i <= j

\* ---------------------------------------------------------- cache lookup
\* for entry in recognition_cache[session_id]: first entry with iou > 0.6;
\* 0 when the loop ends without a break.
CacheLookup(lst, h, box) ==
    LET hits == {i \in 1 .. Len(lst) : IouAccepted(calculate_iou(box, h[lst[i]].box))}
    IN IF hits = {} THEN 0 ELSE CHOOSE i \in hits : \A j \in hits : i <= j

\* Faulty variant: one list shared by all sessions.
SharedList(c, sid) == Flatten(c, SortedSeq(SessionIds))

\* recognition_cache[session_id]
SessionList(c, sid) == c[sid]

\* Faulty variant: the pipeline trusts every answer of the matcher.
PipelineAcceptsAll(match_conf) == TRUE

\* if match_conf < min_conf: student_id = None; name = None
PipelineAccepts(match_conf) == ~(match_conf < MinConfPct)

\* Faulty variant: the loop goes on to the matcher without an encoding.
SkipsNothing(enc) == FALSE

\* if face_encoding is None: continue
SkipsDetection(enc) == enc = NoEncoding

\* What matcher.recognize_face answers to the encoding of a crop; a null
\* encoding is answered (None, None, 0.0).
Answer(enc) == IF enc = NoEncoding THEN Rejected(0) ELSE enc

\* Faulty variant: attendance is marked for every detection.
IdentifiedAlways(name, student_id) == TRUE

\* if name and student_id:
Identified(name, student_id) == name # None /\ student_id # None

\* Faulty variant: every detection that reached the matcher is cached.
ShouldCacheAlways(student_id) == TRUE

\* if student_id:  (only cache if we actually recognized someone)
ShouldCache(student_id) == student_id # None

\* ------------------------------------------------------------- FaceMatcher
\* An embedding is a vector of len coordinates of which all but the first
\* four are 0; head holds those four.  Coordinates of 128-d embeddings are
\* counted in units of 1 / EuclidUnit.  A similarity is a quotient num / den
\* with den > 0.
Embedding(len, head) == [len |-> len, head |-> head]
Ratio(num, den) == [num |-> num, den |-> den]
RatioLess(a, b) == a.num * b.den < b.num * a.den
RatioEqual(a, b) == a.num * b.den = b.num * a.den

\* The root of a perfect square.
Sqrt(n) == CHOOSE r \in 0 .. n : r * r = n

Dot(a, b) == a[1] * b[1] + a[2] * b[2] + a[3] * b[3] + a[4] * b[4]
Difference(a, b) == <<a[1] - b[1], a[2] - b[2], a[3] - b[3], a[4] - b[4]>>

\* np.linalg.norm, in units of 1 / EuclidUnit
Norm(a) == Sqrt(Dot(a, a))

\* Faulty variant: 1.0 / (2.0 + distance), which is 0.5 at distance 0.
EuclidSimilarityHalved(a, b) ==
    Ratio(EuclidUnit, 2 * EuclidUnit + Norm(Difference(a, b)))

\* similarity = 1.0 / (1.0 + distance)
EuclidSimilarity(a, b) ==
    Ratio(EuclidUnit, EuclidUnit + Norm(Difference(a, b)))

\* sklearn cosine_similarity: a zero vector has similarity 0 to everything.
CosineSimilarity(a, b) ==
    IF Norm(a) = 0 \/ Norm(b) = 0 THEN Ratio(0, 1)
    ELSE Ratio(Dot(a, b), Norm(a) * Norm(b))

\* is_dlib_encoding = len(face_encoding) == 128
IsDlib(q) == q.len = DlibLen

Similarity(q, known) ==
    IF IsDlib(q) THEN EuclidSimilarity(q.head, known.head)
    ELSE CosineSimilarity(q.head, known.head)

\* Faulty variant: every stored embedding is compared, whatever its length.
AnyLength(q, known) == TRUE

\* if len(face_encoding) == len(known_encoding)
SameLength(q, known) == q.len = known.len

\* The indices the loop appends to similarities.
Compared(encodings, q) ==
    {i \in 1 .. Len(encodings) : SameLength(q, encodings[i])}

\* Faulty variant: among equal similarities the one stored last wins.
BestLast(encodings, q) ==
    LET cand == Compared(encodings, q)
    IN CHOOSE i \in cand : \A j \in cand :
          \/ RatioLess(Similarity(q, encodings[j]), Similarity(q, encodings[i]))
          \/ /\ RatioEqual(Similarity(q, encodings[j]), Similarity(q, encodings[i]))
             /\ j <= i

\* max(similarities, key=lambda x: x[1]): the first of the largest.
BestFirst(encodings, q) ==
    LET cand == Compared(encodings, q)
    IN CHOOSE i \in cand : \A j \in cand :
          \/ RatioLess(Similarity(q, encodings[j]), Similarity(q, encodings[i]))
          \/ /\ RatioEqual(Similarity(q, encodings[j]), Similarity(q, encodings[i]))
             /\ i <= j

\* threshold = self.confidence_threshold for 128-d, 0.30 otherwise
Threshold(q, confidence_threshold) ==
    IF IsDlib(q) THEN confidence_threshold ELSE CosineThresholdPct

\* Faulty variant: the boundary exclusive.
AboveThreshold(similarity, pct) == similarity.num * 100 > pct * similarity.den

\* if max_similarity >= threshold
AtLeastThreshold(similarity, pct) == similarity.num * 100 >= pct * similarity.den

\* Faulty variant: a neutral confidence when nothing was compared.
NoMatchNeutral == [id |-> None, name |-> None, conf |-> Ratio(1, 2)]

\* return None, None, 0.0
NoMatch == [id |-> None, name |-> None, conf |-> Ratio(0, 1)]

\* FaceMatcher.recognize_face on the store (encodings, ids, names).
recognize_face(encodings, ids, names, confidence_threshold, q) ==
    IF q = NoEncoding THEN NoMatch
    ELSE IF Len(encodings) = 0 THEN NoMatch
    ELSE IF Compared(encodings, q) = {} THEN NoMatch
    ELSE LET best_match_index == BestFirst(encodings, q)
             max_similarity == Similarity(q, encodings[best_match_index])
         IN IF AtLeastThreshold(max_similarity, Threshold(q, confidence_threshold))
            THEN IF best_match_index > Len(ids) \/ best_match_index > Len(names)
                 THEN NoMatch   \* IndexError, caught at line 292
                 ELSE [id |-> ids[best_match_index],
                       name |-> names[best_match_index],
                       conf |-> max_similarity]
            ELSE [id |-> None, name |-> None, conf |-> max_similarity]

\* int(match_conf * 100): truncation towards zero.
ToPercent(c) ==
    IF c.num >= 0 THEN (100 * c.num) \div c.den
    ELSE 0 - ((100 * (0 - c.num)) \div c.den)

\* The embeddings drawn below: four 128-d ones at the corners of a 3 x 4
\* rectangle (mutual distances 3, 4 and 5 units), and four longer ones of
\* norm 10 with cosines 0.3, 0.6 and -0.6 to the first.
DlibEncodings ==
    {Embedding(DlibLen, h) :
       h \in {<<0, 0, 0, 0>>, <<3, 0, 0, 0>>, <<0, 4, 0, 0>>, <<3, 4, 0, 0>>}}
ResNetEncodings ==
    {Embedding(ResNetLen, h) :
       h \in {<<10, 0, 0, 0>>, <<3, 1, 3, 9>>, <<6, 8, 0, 0>>, <<-6, 8, 0, 0>>}}
Encodings == DlibEncodings \cup ResNetEncodings

\* The store the frames of SpecPipeline are matched against: s1 registered
\* with a 128-d embedding, s2 with a longer one.
EnrolledEncodings ==
    <<Embedding(DlibLen, <<0, 0, 0, 0>>), Embedding(ResNetLen, <<10, 0, 0, 0>>)>>
EnrolledIds == <<"s1", "s2">>
EnrolledNames == <<NameOf("s1"), NameOf("s2")>>

\* The answer of the matcher as process_frame carries it: match_conf in
\* hundredths.  The pipeline minimum is a whole number of hundredths, so
\* match_conf < min_conf decides the same on the truncated value.
Matched(q) ==
    LET r == recognize_face(EnrolledEncodings, EnrolledIds, EnrolledNames,
                            MinConfPct, q)
    IN [id |-> r.id, name |-> r.name, conf |-> ToPercent(r.conf)]

\* Detections whose crops yield each of the embeddings.
FacesMatched == [box : OneBox, enc : {Matched(q) : q \in Encodings}]

\* ------------------------------------------------------------------ Init
\* The tables survive restarts: one ACTIVE session exists, started now or
\* exactly one window ago, so that the next tick crosses the boundary.
\* The tracking cache is process memory and starts empty.
InitStarts(p, l) ==
    {0, 0 - p * TicksPerMinute, 0 - (p + l) * TicksPerMinute}

\* ----------------------------------------------- MediaPipeLivenessDetector
\* Scores are in hundredths.  _mediapipe_liveness_detection adds 0.3 for a
\* blink, 0.2 for mouth movement, 0.3 for a frontal head pose and 0.2 for
\* having landmarks at all; without landmarks the score is 0.  A face is live
\* when the score is above 0.4.
LivenessResult(is_live, liveness_score) ==
    [is_live |-> is_live, liveness_score |-> liveness_score]

MediapipeChecks == {"blink", "mouth", "head_pose"}
MediapipeScore(landmarks, checks) ==
    IF landmarks
    THEN Min((IF "blink" \in checks THEN 30 ELSE 0)
               + (IF "mouth" \in checks THEN 20 ELSE 0)
               + (IF "head_pose" \in checks THEN 30 ELSE 0)
               + 20, 100)
    ELSE 0
MediapipeLiveness(landmarks, checks) ==
    LET liveness_score == MediapipeScore(landmarks, checks)
    IN LivenessResult(liveness_score > 40, liveness_score)

\* _fallback_liveness_detection adds 0.3 for edge density, 0.3 for texture,
\* 0.2 for saturation and 0.2 for a reasonable face size; a face is live when
\* the score is above 0.5.  An empty region or an exception answers not live
\* with score 0.
FallbackChecks == {"edges", "texture", "saturation", "face_ratio"}
FallbackScore(checks) ==
    Min((IF "edges" \in checks THEN 30 ELSE 0)
          + (IF "texture" \in checks THEN 30 ELSE 0)
          + (IF "saturation" \in checks THEN 20 ELSE 0)
          + (IF "face_ratio" \in checks THEN 20 ELSE 0), 100)
FallbackLiveness(checks) ==
    LET liveness_score == FallbackScore(checks)
    IN LivenessResult(liveness_score > 50, liveness_score)
FallbackError == LivenessResult(FALSE, 0)

FallbackResults ==
    {FallbackLiveness(checks) : checks \in SUBSET FallbackChecks}
       \cup {FallbackError}

\* _mediapipe_liveness_detection falls back when it raises.
MediapipeResults ==
    {MediapipeLiveness(landmarks, checks) :
        landmarks \in BOOLEAN, checks \in SUBSET MediapipeChecks}
       \cup FallbackResults

\* What detect_liveness of a detector can answer for a face.
detect_liveness(model_available) ==
    IF model_available THEN MediapipeResults ELSE FallbackResults

\* ------------------------------------------------- SimpleAttendanceSystem
\* config.get('attendance.present_window_minutes', 5) and
\* config.get('attendance.late_window_minutes', 15): the defaults of
\* config.py hold neither key.
present_window_minutes == 5
late_window_minutes == 15

NoEntry == [none |-> TRUE]
EmptyRoi == [roi_empty |-> TRUE]
Unknown == "Unknown"

\* Lines 224-233: the status of a recognized student at time t.
SimpleStatus(start, t) ==
    IF start = Null THEN "present"
    ELSE IF t - start[1] <= present_window_minutes * TicksPerMinute
         THEN "present"
    ELSE IF t - start[1] <= late_window_minutes * TicksPerMinute THEN "late"
    ELSE "absent"

\* Faulty variant: a score of exactly 0.3 allowed too.
BorderlineInclusive(liveness_result) ==
    ~liveness_result.is_live /\ liveness_result.liveness_score >= 30

\* Line 205: not is_live and liveness_score > 0.3.
Borderline(liveness_result) ==
    ~liveness_result.is_live /\ liveness_result.liveness_score > 30

\* Lines 187-246 for one face: what the face yields, given the entries marked
\* so far.  liveness_result is the detector's answer, or the defaults of
\* lines 195-196 without a detector.
FaceResult(face, entries, start, t, liveness) ==
    IF face = EmptyRoi
    THEN [roi_empty |-> TRUE, is_live |-> FALSE, liveness_score |-> 0,
          passed |-> FALSE, student_id |-> None, student_name |-> Unknown,
          recognition_confidence |-> 0, marked |-> FALSE]
    ELSE LET liveness_result == IF liveness = Null
                                THEN LivenessResult(TRUE, 100)
                                ELSE face.liveness
             is_live == liveness_result.is_live \/ Borderline(liveness_result)
             named == /\ is_live
                      /\ face.enc # NoEncoding
                      /\ face.enc.name # None
         IN [roi_empty |-> FALSE,
             is_live |-> is_live,
             liveness_score |-> liveness_result.liveness_score,
             passed |-> is_live,
             student_id |-> IF named THEN face.enc.id ELSE None,
             student_name |-> IF named THEN face.enc.name ELSE Unknown,
             recognition_confidence |-> IF named THEN face.enc.conf ELSE 0,
             marked |-> named /\ entries[face.enc.id] = NoEntry]

\* Lines 236-243: the entry of a newly marked student.
Marked(entries, result, start, t) ==
    IF result.marked
    THEN [entries EXCEPT ![result.student_id] =
             [name |-> result.student_name, time |-> t,
              confidence |-> result.recognition_confidence,
              liveness_score |-> result.liveness_score,
              status |-> SimpleStatus(start, t)]]
    ELSE entries

\* The loop of line 187 over the faces of a frame: the results of the faces
\* and the entries after the last one.
RECURSIVE ProcessFaces(_, _, _, _, _)
ProcessFaces(faces, entries, start, t, liveness) ==
    IF faces = <<>> THEN [results |-> <<>>, entries |-> entries]
    ELSE LET result == FaceResult(Head(faces), entries, start, t, liveness)
             rest == ProcessFaces(Tail(faces),
                                  Marked(entries, result, start, t),
                                  start, t, liveness)
         IN [results |-> <<result>> \o rest.results, entries |-> rest.entries]

\* ------------------------------------- AttendanceSystem (camera pipeline)
\* The ids of the face database are the strings given at registration; the
\* user with number n is called "sn" here and Guest is an id that is not a
\* number.
Guest == "guest"
FaceIds == Students \cup {Guest}

\* int(student_id): the user's number, or ValueError (Null).
IntOf(student_id) ==
    IF student_id \in Students THEN Some(student_id) ELSE Null

\* Line 127: (now - last_process_time[student_id]).total_seconds() < 5.
DebounceSeconds == 5
Debounced(times, student_id, t) ==
    /\ times[student_id] # Null
    /\ t - times[student_id][1] < DebounceSeconds * TicksPerSecond

\* -------------------------------------------------------- ResourceManager
\* The threads that call the global resource_manager, the names they use and
\* what a resource offers: 'cleanup', 'close' (or 'shutdown', handled alike),
\* or none of them.
RmThreads == {1, 2}
RmNames == {"camera", "pool"}
RmKinds == {"cleanup", "close", "none"}

\* name in self.resources
Registered(registry, name) ==
    \E i \in 1 .. Len(registry) : registry[i].name = name

\* list(self.resources.keys())
Keys(registry) == [i \in 1 .. Len(registry) |-> registry[i].name]

\* del self.resources[name]
Deleted(registry, name) == SelectSeq(registry, LAMBDA r : r.name # name)

\* ---------------------------------------------------------- ConfigManager
\* A key is a string, a sequence of characters; a dict maps strings to dicts
\* and scalars.
PyNone == [none |-> TRUE]
Scalar(v) == [value |-> v]
Dict(f) == [dict |-> f]
IsDict(node) == "dict" \in DOMAIN node

\* str.split('.'): the pieces between the dots, empty ones included.
RECURSIVE Split(_)
Split(key) ==
    IF \A i \in 1 .. Len(key) : key[i] # "."
    THEN <<key>>
    ELSE LET dot == CHOOSE i \in 1 .. Len(key) :
                       key[i] = "." /\ \A j \in 1 .. i - 1 : key[j] # "."
         IN <<SubSeq(key, 1, dot - 1)>> \o Split(SubSeq(key, dot + 1, Len(key)))

\* The outcome of a call: a value, or the exception it raised.
Returned(v) == [raised |-> "no", value |-> v]
Raised(e) == [raised |-> e, value |-> PyNone]

\* for k in keys: value = value[k].  A missing key of a dict raises KeyError,
\* subscripting a number or a string with a string raises TypeError.
RECURSIVE Walk(_, _)
Walk(value, keys) ==
    IF keys = <<>> THEN Returned(value)
    ELSE IF ~IsDict(value) THEN Raised("TypeError")
    ELSE IF Head(keys) \notin DOMAIN value.dict THEN Raised("KeyError")
    ELSE Walk(value.dict[Head(keys)], Tail(keys))

\* ConfigManager.get: only KeyError is caught.
ConfigGet(config, key, default) ==
    LET r == Walk(config, Split(key))
    IN IF r.raised = "KeyError" THEN Returned(default) ELSE r

\* d[k] = v
SetItem(f, k, v) ==
    [x \in DOMAIN f \cup {k} |-> IF x = k THEN v ELSE f[x]]

\* ConfigManager.set, on the dict the loop has reached: a missing level is
\* created as {}, and 'k not in config' or the assignment raises TypeError
\* when the level reached is a number or a string.  A level the loop created
\* is a dict, so nothing has been created when the call raises.
RECURSIVE SetPath(_, _, _)
SetPath(config, keys, value) ==
    IF ~IsDict(config) THEN Raised("TypeError")
    ELSE IF Len(keys) = 1
    THEN Returned(Dict(SetItem(config.dict, keys[1], value)))
    ELSE LET k == Head(keys)
             level == IF k \in DOMAIN config.dict THEN config.dict[k]
                      ELSE Dict(<<>>)
             r == SetPath(level, Tail(keys), value)
         IN IF r.raised # "no" THEN r
            ELSE Returned(Dict(SetItem(config.dict, k, r.value)))

\* The defaults of _load_config, as one section with one option.
DefaultConfig == Dict(SetItem(<<>>, <<"a">>, Dict(SetItem(<<>>, <<"b">>, Scalar(1)))))

\* The module globals of lines 53-54 before the first get_models call.
ModelsCold ==
    /\ detector = Null
    /\ matcher = Null
    /\ loaded = {}
    /\ constructed = [detector |-> 0, matcher |-> 0]
    /\ gm_pc = [c \in Callers |-> "idle"]
    /\ obtained = [c \in Callers |-> NoModels]

\* The same globals once a first get_models call has completed alone.
ModelsWarm ==
    /\ detector = Some(1)
    /\ matcher = Some(1)
    /\ loaded = {Some(1)}
    /\ constructed = [detector |-> 1, matcher |-> 1]
    /\ gm_pc = [c \in Callers |-> "idle"]
    /\ obtained = [c \in Callers |-> NoModels]

InitCore(sess) ==
    /\ now = 0
    /\ sessions = sess
    /\ records = EmptyBag
    /\ heap = [o \in ObjIds |-> Free]
    /\ recognition_cache = [s \in SessionIds |-> <<>>]
    /\ pc = [w \in Workers |-> "idle"]
    /\ session_id = [w \in Workers |-> 1]
    /\ current_time = [w \in Workers |-> 0]
    /\ new_cache_entries = [w \in Workers |-> <<>>]
    /\ recognitions = [w \in Workers |-> <<>>]
    /\ n_faces = [w \in Workers |-> 0]
    /\ pending = [w \in Workers |-> NoPending]
    /\ resp = [w \in Workers |-> 0]
    /\ call_status = [w \in Workers |-> "missing"]
    /\ base = [w \in Workers |-> <<>>]
    /\ frame = [w \in Workers |-> <<>>]
    /\ rivals = [w \in Workers |-> {}]
    /\ last = [w \in Workers |-> NoDetection]
    /\ create_call = NoCall
    /\ known_face_encodings = <<>>
    /\ known_face_ids = <<>>
    /\ known_face_names = <<>>
    /\ known_face_metadata = <<>>
    /\ add_call = NoCall
    /\ face_encoding = NoEncoding
    /\ recognized = NoCall
    /\ database_path = NoCall
    /\ enrollments = {}
    /\ report = NoCall
    /\ _config = DefaultConfig
    /\ config_sets = 0
    /\ config_call = NoCall

\* SimpleAttendanceSystem as its constructor leaves it when no liveness
\* detector could be built (lines 88-101).
SimpleConstructed(liveness) ==
    /\ attendance_records = [x \in Students |-> NoEntry]
    /\ session_start = Null
    /\ liveness_detector = liveness
    /\ simple_call = NoCall

\* AttendanceSystem.__init__, lines 34-37.
CameraConstructed ==
    /\ active_session_id = Null
    /\ processed_students = {}
    /\ last_process_time = [id \in FaceIds |-> Null]
    /\ failed_students = {}

\* ResourceManager.__init__, lines 190-192; no call is in progress.
ResourcesConstructed ==
    /\ resources = <<>>
    /\ lock = Null
    /\ rm_pc = [t \in RmThreads |-> "idle"]
    /\ rm_call = [t \in RmThreads |-> NoCall]
    /\ rm_result = [t \in RmThreads |-> NoCall]
    /\ registrations = 0

InitState(sess) ==
    /\ InitCore(sess)
    /\ SimpleConstructed(Null)
    /\ CameraConstructed
    /\ ResourcesConstructed

InitTables(sess) == InitState(sess) /\ ModelsWarm

InitWith(starts) ==
    \E start \in starts :
       InitTables([s \in SessionIds |->
                     IF s = 1 THEN SessionRow("active", start, DefaultPresentWindow,
                                              DefaultLateWindow)
                     ELSE NoSession])

Init == InitWith(InitStarts(DefaultPresentWindow, DefaultLateWindow))
InitNow == InitWith({0})

\* Two ACTIVE sessions started now.
InitBoth ==
    InitTables([s \in SessionIds |->
                  SessionRow("active", 0, DefaultPresentWindow, DefaultLateWindow)])

\* ------------------------------------------------------------------ clock
\* The clock is read on entry (line 132), before classification (line 224)
\* and by the administration handlers; a tick inside the lookup loop is the
\* same as a tick right after it.
ClockStep(limit) ==
    /\ now < limit
    /\ \E w \in Workers : pc[w] # "loop"
    /\ now' = now + 1
    /\ UNCHANGED <<dbVars, cacheVars, frameVars, ghostVars, modelVars, sideVars, matcherVars, create_call>>

Tick == ClockStep(MaxTime)

\* ---------------------------------------------------------- process_frame
\* Entry of the handler up to the detection loop: the clock is read, the
\* session's list is created if missing and its expired entries are dropped.
StartFrame(w, sid) ==
    /\ pc[w] = "idle"
    /\ LET cleaned == SelectSeq(recognition_cache[sid],
                                LAMBDA o : EntryLive(now, heap[o].timestamp))
           n == Normalize(heap,
                          [recognition_cache EXCEPT ![sid] = cleaned],
                          [new_cache_entries EXCEPT ![w] = <<>>])
       IN /\ heap' = n.heap
          /\ recognition_cache' = n.cache
          /\ new_cache_entries' = n.new
    /\ pc' = [pc EXCEPT ![w] = "loop"]
    /\ session_id' = [session_id EXCEPT ![w] = sid]
    /\ current_time' = [current_time EXCEPT ![w] = now]
    /\ recognitions' = [recognitions EXCEPT ![w] = <<>>]
    /\ n_faces' = [n_faces EXCEPT ![w] = 0]
    /\ pending' = [pending EXCEPT ![w] = NoPending]
    /\ resp' = [resp EXCEPT ![w] = 0]
    /\ call_status' = [call_status EXCEPT ![w] = sessions[sid].status]
    /\ last' = [last EXCEPT ![w] = NoDetection]
    /\ UNCHANGED <<now, dbVars>>

\* The early returns: no frame, no session id, undecodable image.
BadRequest(w) ==
    /\ pc[w] = "idle"
    /\ pc' = [pc EXCEPT ![w] = "done"]
    /\ resp' = [resp EXCEPT ![w] = 400]
    /\ UNCHANGED <<now, dbVars, cacheVars, session_id, current_time,
                   recognitions, n_faces, pending, call_status, last>>

Recognition(box, student_id, name, match_conf, status) ==
    [bounding_box |-> box, student_id |-> student_id, student_name |-> name,
     confidence |-> match_conf, status |-> status]

\* One detection, from the cache lookup to the query for an existing record.
\* The result: where the identity came from and what the loop body does next.
Resolve(w, face) ==
    LET lst == SessionList(recognition_cache, session_id[w])
        idx == CacheLookup(lst, heap, face.box)
    IN IF idx # 0
       THEN [hit |-> TRUE, obj |-> lst[idx], skip |-> FALSE,
             student_id |-> heap[lst[idx]].id, name |-> heap[lst[idx]].name,
             match_conf |-> heap[lst[idx]].conf,
             extract |-> FALSE, recognize |-> FALSE, insert |-> FALSE]
       ELSE IF SkipsDetection(face.enc)
       THEN [hit |-> FALSE, obj |-> 0, skip |-> TRUE,
             student_id |-> None, name |-> None, match_conf |-> 0,
             extract |-> TRUE, recognize |-> FALSE, insert |-> FALSE]
       ELSE LET answer == Answer(face.enc)
                ok == PipelineAccepts(answer.conf)
                sid2 == IF ok THEN answer.id ELSE None
            IN [hit |-> FALSE, obj |-> 0, skip |-> FALSE,
                student_id |-> sid2,
                name |-> IF ok THEN answer.name ELSE None,
                match_conf |-> answer.conf,
                extract |-> TRUE, recognize |-> TRUE,
                insert |-> ShouldCache(sid2)]

AutoRow(sid, student_id, status, t, match_conf) ==
    [session_id |-> sid, student_id |-> student_id, status |-> status,
     detected_at |-> t, confidence_score |-> Some(match_conf),
     liveness_score |-> Null, manual_override |-> FALSE,
     override_by |-> None, override_reason |-> None]

ManualRow(sid, student_id, status, t, reason) ==
    [session_id |-> sid, student_id |-> student_id, status |-> status,
     detected_at |-> t, confidence_score |-> Null,
     liveness_score |-> Null, manual_override |-> TRUE,
     override_by |-> AdminUser, override_reason |-> reason]

\* Ghost record of one detection.
Observed(w, face, r) ==
    [box |-> face.box,
     overlap |-> \E i \in 1 .. Len(recognition_cache[session_id[w]]) :
                    IouAccepted(calculate_iou(
                        face.box, heap[recognition_cache[session_id[w]][i]].box)),
     hit |-> r.hit,
     src |-> IF r.hit THEN heap[r.obj] ELSE Free,
     others |-> IF r.hit
                THEN {heap[recognition_cache[session_id[w]][i]].box :
                        i \in 1 .. Len(recognition_cache[session_id[w]])}
                ELSE {},
     extract |-> r.extract, recognize |-> r.recognize,
     answer |-> IF r.recognize THEN Answer(face.enc) ELSE NoEncoding,
     student_id |-> r.student_id, name |-> r.name, match_conf |-> r.match_conf,
     insert |-> r.insert,
     existed |-> RowCount(records, session_id[w], r.student_id) > 0,
     skip |-> r.skip, classified |-> FALSE, elapsed |-> 0,
     new_status |-> None, wrote |-> FALSE, conflict |-> FALSE,
     error |-> FALSE, status |-> None]

\* Faulty variant: the hit keeps the entry alive but leaves its position.
RefreshedTimestampOnly(entry, timestamp, box) ==
    [entry EXCEPT !.timestamp = timestamp]

\* cached_match['timestamp'] = current_time; cached_match['box'] = current_box
Refreshed(entry, timestamp, box) ==
    [entry EXCEPT !.timestamp = timestamp, !.box = box]

\* Loop body for one detection, lines 146-219 (and 270-280 when the loop body
\* ends here): cache lookup, else extraction and matching, then the query for
\* an existing record.
Detect(w, face, limit) ==
    /\ pc[w] = "loop"
    /\ n_faces[w] < limit
    /\ LET r == Resolve(w, face)
           a == FreeAddress(heap)
           h1 == IF r.hit
                 THEN [heap EXCEPT ![r.obj] =
                         Refreshed(@, current_time[w], face.box)]
                 ELSE IF r.insert
                 THEN [heap EXCEPT ![a] =
                         [box |-> face.box, id |-> r.student_id, name |-> r.name,
                          conf |-> r.match_conf, timestamp |-> current_time[w]]]
                 ELSE heap
           ne1 == IF r.hit THEN Append(new_cache_entries[w], r.obj)
                  ELSE IF r.insert THEN Append(new_cache_entries[w], a)
                  ELSE new_cache_entries[w]
           n == Normalize(h1, recognition_cache,
                          [new_cache_entries EXCEPT ![w] = ne1])
           identified == Identified(r.name, r.student_id)
           existing == ExistingRecord(records, session_id[w], r.student_id)
           obs == Observed(w, face, r)
       IN /\ heap' = n.heap
          /\ recognition_cache' = n.cache
          /\ new_cache_entries' = n.new
          /\ n_faces' = [n_faces EXCEPT ![w] = @ + 1]
          /\ IF r.skip
             THEN /\ last' = [last EXCEPT ![w] = obs]
                  /\ UNCHANGED <<pc, pending, recognitions>>
             ELSE IF ~identified
             THEN /\ recognitions' = [recognitions EXCEPT ![w] = Append(@,
                        Recognition(face.box, r.student_id, r.name,
                                    r.match_conf, "unknown"))]
                  /\ last' = [last EXCEPT ![w] = [obs EXCEPT !.status = "unknown"]]
                  /\ UNCHANGED <<pc, pending>>
             ELSE IF existing # NoRow
             THEN /\ recognitions' = [recognitions EXCEPT ![w] = Append(@,
                        Recognition(face.box, r.student_id, r.name,
                                    r.match_conf, existing.status))]
                  /\ last' = [last EXCEPT ![w] =
                                [obs EXCEPT !.status = existing.status]]
                  /\ UNCHANGED <<pc, pending>>
             ELSE /\ pc' = [pc EXCEPT ![w] = "record"]
                  /\ pending' = [pending EXCEPT ![w] =
                        [box |-> face.box, student_id |-> r.student_id,
                         name |-> r.name, match_conf |-> r.match_conf]]
                  /\ last' = [last EXCEPT ![w] = obs]
                  /\ UNCHANGED recognitions
          /\ records' = IF ~r.skip /\ identified /\ existing # NoRow
                        THEN ExistingKept(records, existing)
                        ELSE records
    /\ UNCHANGED <<now, sessions, session_id, current_time, resp, call_status>>

\* except Exception: the frame ends with a 500 response; line 283 is not
\* reached, so the session keeps the list left by the entry step.
Raise(w) ==
    /\ pc' = [pc EXCEPT ![w] = "done"]
    /\ resp' = [resp EXCEPT ![w] = 500]
    /\ recognitions' = [recognitions EXCEPT ![w] = <<>>]
    /\ pending' = [pending EXCEPT ![w] = NoPending]
    /\ LET n == Normalize(heap, recognition_cache,
                          [new_cache_entries EXCEPT ![w] = <<>>])
       IN /\ heap' = n.heap
          /\ recognition_cache' = n.cache
          /\ new_cache_entries' = n.new

\* Lines 221-268 for a matched student without a record: load the session,
\* classify by elapsed time, insert and commit.
Record(w) ==
    /\ pc[w] = "record"
    /\ LET sid == session_id[w]
           session_obj == sessions[sid]
           p == pending[w]
       IN IF session_obj = NoSession
          THEN \* session_obj is None: AttributeError on .start_time
               /\ Raise(w)
               /\ last' = [last EXCEPT ![w] = [@ EXCEPT !.error = TRUE]]
               /\ UNCHANGED records
          ELSE LET elapsed == now - session_obj.start_time
                   new_status == WindowStatus(elapsed,
                                     session_obj.present_window_minutes,
                                     session_obj.late_window_minutes)
                   row == AutoRow(sid, p.student_id, new_status, now, p.match_conf)
                   seen == [last[w] EXCEPT !.classified = TRUE,
                                           !.elapsed = elapsed,
                                           !.new_status = new_status]
               IN IF new_status = "absent"
                  THEN /\ recognitions' = [recognitions EXCEPT ![w] = Append(@,
                             Recognition(p.box, p.student_id, p.name,
                                         p.match_conf, "absent"))]
                       /\ last' = [last EXCEPT ![w] = [seen EXCEPT !.status = "absent"]]
                       /\ pc' = [pc EXCEPT ![w] = "loop"]
                       /\ pending' = [pending EXCEPT ![w] = NoPending]
                       /\ UNCHANGED <<records, resp, cacheVars>>
                  ELSE IF InsertAllowed(records, sessions, row)
                  THEN /\ records' = AddRow(records, row)
                       /\ recognitions' = [recognitions EXCEPT ![w] = Append(@,
                             Recognition(p.box, p.student_id, p.name,
                                         p.match_conf, new_status))]
                       /\ last' = [last EXCEPT ![w] =
                             [seen EXCEPT !.status = new_status, !.wrote = TRUE]]
                       /\ pc' = [pc EXCEPT ![w] = "loop"]
                       /\ pending' = [pending EXCEPT ![w] = NoPending]
                       /\ UNCHANGED <<resp, cacheVars>>
                  ELSE \* IntegrityError from db.session.commit()
                       /\ Raise(w)
                       /\ last' = [last EXCEPT ![w] =
                             [seen EXCEPT !.conflict = TRUE, !.error = TRUE]]
                       /\ UNCHANGED records
    /\ UNCHANGED <<now, sessions, session_id, current_time,
                   n_faces, call_status>>

\* Lines 282-288: the session's list is replaced and the response returned.
FinishFrame(w) ==
    /\ pc[w] = "loop"
    /\ LET n == Normalize(heap,
                  [recognition_cache EXCEPT ![session_id[w]] = new_cache_entries[w]],
                  [new_cache_entries EXCEPT ![w] = <<>>])
       IN /\ heap' = n.heap
          /\ recognition_cache' = n.cache
          /\ new_cache_entries' = n.new
    /\ pc' = [pc EXCEPT ![w] = "done"]
    /\ resp' = [resp EXCEPT ![w] = 200]
    /\ UNCHANGED <<now, dbVars, session_id, current_time, recognitions, n_faces,
                   pending, call_status, last>>

\* The response has been sent; the request's locals are gone.
Return(w) ==
    /\ pc[w] = "done"
    /\ pc' = [pc EXCEPT ![w] = "idle"]
    /\ session_id' = [session_id EXCEPT ![w] = 1]
    /\ current_time' = [current_time EXCEPT ![w] = 0]
    /\ recognitions' = [recognitions EXCEPT ![w] = <<>>]
    /\ n_faces' = [n_faces EXCEPT ![w] = 0]
    /\ resp' = [resp EXCEPT ![w] = 0]
    /\ call_status' = [call_status EXCEPT ![w] = "missing"]
    /\ last' = [last EXCEPT ![w] = NoDetection]
    /\ UNCHANGED <<now, dbVars, cacheVars, pending>>

\* The handler, for frames of the sessions sids whose detector output is at
\* most limit faces drawn from faces.
process_frame(w, sids, faces, limit) ==
    \/ (\E sid \in sids : StartFrame(w, sid)) /\ UNCHANGED <<ghostVars, modelVars, sideVars, matcherVars, create_call>>
    \/ BadRequest(w) /\ UNCHANGED <<ghostVars, modelVars, sideVars, matcherVars, create_call>>
    \/ (\E face \in faces : Detect(w, face, limit)) /\ UNCHANGED <<ghostVars, modelVars, sideVars, matcherVars, create_call>>
    \/ Record(w) /\ UNCHANGED <<ghostVars, modelVars, sideVars, matcherVars, create_call>>
    \/ FinishFrame(w) /\ UNCHANGED <<ghostVars, modelVars, sideVars, matcherVars, create_call>>
    \/ Return(w) /\ UNCHANGED <<ghostVars, modelVars, sideVars, matcherVars, create_call>>

\* The same handler with the history of each call kept: the session's live
\* entries when the call began and the detections it has consumed.
process_frame_traced(w, sids, faces, limit) ==
    \/ \E sid \in sids :
          /\ StartFrame(w, sid)
          /\ base' = [base EXCEPT ![w] = Aliased(recognition_cache'[sid], heap')]
          /\ frame' = [frame EXCEPT ![w] = <<>>]
          /\ rivals' = [v \in Workers |->
                           IF v = w
                           THEN {u \in Workers \ {w} : pc[u] \in {"loop", "record"}}
                           ELSE rivals[v] \ {w}]
          /\ UNCHANGED <<modelVars, sideVars, matcherVars, create_call>>
    \/ BadRequest(w) /\ UNCHANGED <<ghostVars, modelVars, sideVars, matcherVars, create_call>>
    \/ \E face \in faces :
          /\ Detect(w, face, limit)
          /\ frame' = [frame EXCEPT ![w] = Append(@, face)]
          /\ UNCHANGED <<base, rivals, modelVars, sideVars, matcherVars, create_call>>
    \/ Record(w) /\ UNCHANGED <<ghostVars, modelVars, sideVars, matcherVars, create_call>>
    \/ FinishFrame(w) /\ UNCHANGED <<ghostVars, modelVars, sideVars, matcherVars, create_call>>
    \/ /\ Return(w)
       /\ base' = [base EXCEPT ![w] = <<>>]
       /\ frame' = [frame EXCEPT ![w] = <<>>]
       /\ rivals' = [rivals EXCEPT ![w] = {}]
       /\ UNCHANGED <<modelVars, sideVars, matcherVars, create_call>>

\* ----------------------------------------------------- session handlers
\* PUT /sessions/<id> with a status.
update_session(sid, status) ==
    /\ sessions[sid] # NoSession
    /\ IF status = "completed"
       THEN /\ sessions[sid].status # "completed"
            /\ sessions' = [sessions EXCEPT ![sid] =
                  [@ EXCEPT !.status = "completed", !.end_time = Some(now)]]
       ELSE sessions' = [sessions EXCEPT ![sid] = [@ EXCEPT !.status = status]]
    /\ UNCHANGED <<now, records, cacheVars, frameVars, ghostVars, modelVars, sideVars, matcherVars, create_call>>

\* POST /sessions with present_window and late_window (Null: key absent).
\* A row the table's checks reject makes the commit raise: rollback, 500.
create_session(present_window, late_window) ==
    /\ FreeSessionIds(sessions) # {}
    /\ LET new_session ==
              SessionRow("active", now,
                         Get(present_window, DefaultPresentWindow),
                         Get(late_window, DefaultLateWindow))
           id == NewSessionId(sessions)
           call == [present_window |-> new_session.present_window_minutes,
                    late_window |-> new_session.late_window_minutes]
       IN IF SessionChecks(new_session)
          THEN /\ sessions' = [sessions EXCEPT ![id] = new_session]
               /\ create_call' = call @@ [code |-> 201, session_id |-> Some(id),
                                           persisted |-> TRUE]
          ELSE /\ sessions' = sessions
               /\ create_call' = call @@ [code |-> 500, session_id |-> Null,
                                           persisted |-> FALSE]
    /\ UNCHANGED <<now, records, cacheVars, frameVars, ghostVars, modelVars, sideVars, matcherVars>>

\* scheduling.start_class_session: an ACTIVE session with the column
\* defaults for both windows.
start_class_session ==
    /\ FreeSessionIds(sessions) # {}
    /\ LET session == SessionRow("active", now, DefaultPresentWindow,
                                 DefaultLateWindow)
       IN /\ SessionChecks(session)
          /\ sessions' = [sessions EXCEPT ![NewSessionId(sessions)] = session]
    /\ UNCHANGED <<now, records, cacheVars, frameVars, ghostVars, modelVars, sideVars, matcherVars,
                   create_call>>

\* The window values a client can send to POST /sessions.
WindowInputs == {Null, Some(0), Some(1), Some(5), Some(15)}

\* scheduling.end_class_session: the ACTIVE session of the class is closed.
end_class_session(sid) ==
    /\ sessions[sid] # NoSession
    /\ sessions[sid].status = "active"
    /\ sessions' = [sessions EXCEPT ![sid] =
          [@ EXCEPT !.end_time = Some(now), !.status = "completed"]]
    /\ UNCHANGED <<now, records, cacheVars, frameVars, ghostVars, modelVars, sideVars, matcherVars, create_call>>

\* DELETE /sessions/<id>: the session's records, then the session.
delete_session(sid) ==
    /\ sessions[sid] # NoSession
    /\ records' = DeleteRowsOfSession(records, sid)
    /\ sessions' = [sessions EXCEPT ![sid] = NoSession]
    /\ UNCHANGED <<now, cacheVars, frameVars, ghostVars, modelVars, sideVars, matcherVars, create_call>>

\* POST /sessions/<id>/records: a manual record for a pair that has none.
manage_session_records(sid, student_id, status) ==
    /\ sessions[sid] # NoSession
    /\ ExistingRecord(records, sid, student_id) = NoRow
    /\ LET row == ManualRow(sid, student_id, status, now, "manual")
       IN /\ InsertAllowed(records, sessions, row)
          /\ records' = AddRow(records, row)
    /\ UNCHANGED <<now, sessions, cacheVars, frameVars, ghostVars, modelVars, sideVars, matcherVars, create_call>>

\* PUT /records/<id> with a JSON body; a key whose value is None is absent
\* from the body.
manage_record(row, data) ==
    /\ BagIn(row, records)
    /\ LET named == IF data.status # None
                    THEN [row EXCEPT !.status = data.status] ELSE row
           updated == IF data.override_reason # None
                      THEN [named EXCEPT !.override_reason = data.override_reason,
                                         !.manual_override = TRUE,
                                         !.override_by = AdminUser]
                      ELSE named
       IN records' = AddRow(records (-) SetToBag({row}), updated)
    /\ UNCHANGED <<now, sessions, cacheVars, frameVars, ghostVars, modelVars, sideVars, matcherVars, create_call>>

\* The bodies a client can send to PUT /records/<id>.
RecordUpdates ==
    [status : AttendanceStatus \cup {None}, override_reason : {None, "corrected"}]

\* ------------------------------------------------- ConfigManager, as calls
\* What the ghost of a get keeps of the call before it, when that was a set.
Brief(call) ==
    IF call = NoCall \/ call.op # "set" THEN NoCall
    ELSE [op |-> call.op, key |-> call.key, arg |-> call.arg,
          raised |-> call.raised]

\* config.set(key, value)
config_set(key, value) ==
    /\ config_sets < MaxSets
    /\ LET r == SetPath(_config, Split(key), value)
       IN /\ _config' = IF r.raised = "no" THEN r.value ELSE _config
          /\ config_call' = [op |-> "set", key |-> key, arg |-> value,
                             raised |-> r.raised, returned |-> PyNone,
                             after |-> NoCall]
    /\ config_sets' = config_sets + 1
    /\ UNCHANGED <<apiVars, reportVars, simpleVars, cameraVars, resourceVars>>

\* config.get(key, default)
config_get(key, default) ==
    /\ LET r == ConfigGet(_config, key, default)
       IN config_call' = [op |-> "get", key |-> key, arg |-> default,
                          raised |-> r.raised, returned |-> r.value,
                          after |-> Brief(config_call)]
    /\ UNCHANGED <<_config, config_sets, apiVars, reportVars, simpleVars, cameraVars, resourceVars>>

\* The keys drawn: one to three names joined by dots, and keys with an empty
\* piece.
ConfigKeys ==
    LET names == {"a", "b"}
    IN {<<x>> : x \in names}
       \cup {<<x, ".", y>> : x, y \in names}
       \cup {<<x, ".", y, ".", z>> : x, y, z \in names}
       \cup {<<>>, <<"a", ".">>, <<".", "a">>}

ConfigValues == {Scalar(2), Dict(<<>>)}

\* ------------------------------------------- the session records report
Classes == {1, 2}

\* /api/admin/classes/<class_id>/enroll: POST enrolls a student who is not
\* enrolled yet, DELETE removes the enrollment.
admin_class_enroll_api(class_id, method, student_id) ==
    LET enrollment == [class_id |-> class_id, student_id |-> student_id]
    IN /\ IF method = "POST"
          THEN /\ enrollment \notin enrollments
               /\ enrollments' = enrollments \cup {enrollment}
          ELSE /\ enrollment \in enrollments
               /\ enrollments' = enrollments \ {enrollment}
       /\ UNCHANGED <<report, apiVars, configVars, simpleVars, cameraVars, resourceVars>>

\* Faulty variant: the students of every class.
EnrolledAnywhere(enr, class_id) == {e.student_id : e \in enr}

\* query(User).join(Enrollment).filter(Enrollment.class_id == class_id)
EnrolledStudents(enr, class_id) ==
    {e.student_id : e \in {f \in enr : f.class_id = class_id}}

\* The orders in which a query without ORDER BY may return a set of rows.
Orderings(S) ==
    {seq \in [1 .. Cardinality(S) -> S] :
       \A i, j \in 1 .. Cardinality(S) : seq[i] = seq[j] => i = j}

\* records_map.get(student.id): unique_session_student leaves at most one row
\* per student in existing_records.
RecordsMapGet(existing_records, student_id) ==
    LET rows == {r \in existing_records : r.student_id = student_id}
    IN IF rows = {} THEN NoRow ELSE CHOOSE r \in rows : TRUE

\* One element of the list the report returns.
ReportEntry(existing_records, student_id) ==
    LET record == RecordsMapGet(existing_records, student_id)
    IN [student_id |-> student_id,
        student_name |-> NameOf(student_id),
        status |-> IF record # NoRow THEN record.status ELSE "absent",
        check_in_time |-> IF record # NoRow THEN Some(record.detected_at)
                          ELSE Null,
        override_reason |-> IF record # NoRow THEN record.override_reason
                            ELSE None]

\* GET /sessions/<id>/records.  get_or_404 raises inside the try block, so a
\* missing session is answered by the blanket handler with 500.
get_session_records(sid) ==
    /\ IF sessions[sid] = NoSession
       THEN report' = [session_id |-> sid, code |-> 500, class_id |-> 0,
                       enrollments |-> enrollments, existing_records |-> {},
                       result |-> <<>>]
       ELSE \E enrolled_students \in
                 Orderings(EnrolledStudents(enrollments, sessions[sid].class_id)) :
               LET existing_records ==
                      {r \in BagToSet(records) : r.session_id = sid}
               IN report' =
                     [session_id |-> sid, code |-> 200,
                      class_id |-> sessions[sid].class_id,
                      enrollments |-> enrollments,
                      existing_records |-> existing_records,
                      result |-> [i \in 1 .. Len(enrolled_students) |->
                                    ReportEntry(existing_records,
                                                enrolled_students[i])]]
    /\ UNCHANGED <<enrollments, apiVars, configVars, simpleVars, cameraVars, resourceVars>>

\* ---------------------------------------- SimpleAttendanceSystem, as calls
\* process_frame(frame): the frame is the list of detected faces, each with
\* the detector's liveness answer and what extraction and recognition make of
\* its crop.  The matcher is always built: FaceMatcher.__init__ and
\* load_known_faces raise nothing.
simple_process_frame(faces) ==
    LET done == ProcessFaces(faces, attendance_records, session_start, now,
                             liveness_detector)
    IN /\ attendance_records' = done.entries
       /\ simple_call' = [session_start |-> session_start, time |-> now,
                          faces |-> faces, results |-> done.results]
       /\ UNCHANGED <<session_start, liveness_detector, apiVars, reportVars,
                      configVars, cameraVars, resourceVars>>

\* run(), line 301: the session starts when the loop does.
simple_run ==
    /\ session_start = Null
    /\ session_start' = Some(now)
    /\ simple_call' = NoCall
    /\ UNCHANGED <<attendance_records, liveness_detector, apiVars, reportVars,
                   configVars, cameraVars, resourceVars>>

\* reset_attendance, lines 387-392.
reset_attendance ==
    /\ attendance_records' = [x \in Students |-> NoEntry]
    /\ session_start' = Some(now)
    /\ simple_call' = NoCall
    /\ UNCHANGED <<liveness_detector, apiVars, reportVars, configVars,
                   cameraVars, resourceVars>>

\* The faces a frame can hold for a system with the given liveness detector.
SimpleEncodings == {Accepted("s1", 70), Rejected(20), NoEncoding}
SimpleFaces(liveness) ==
    [liveness : IF liveness = Null THEN {LivenessResult(TRUE, 100)}
                ELSE detect_liveness(liveness[1].model_available),
     enc : SimpleEncodings] \cup {EmptyRoi}
PairFaces(liveness) ==
    {f \in SimpleFaces(liveness) \ {EmptyRoi} :
        /\ f.enc = Accepted("s1", 70)
        /\ f.liveness.liveness_score \in {40, 100}}
SimpleFrames(liveness) ==
    {<<f>> : f \in SimpleFaces(liveness)}
       \cup {<<f, g>> : f \in PairFaces(liveness), g \in PairFaces(liveness)}

\* ------------------------------------------------ AttendanceSystem, as calls
\* Faulty variant: the commit of a table without unique_session_student.
CommitsUnconstrained(recs, sess, row, commit) == commit = "ok"

\* db.session.commit() of one new record: it raises when the table refuses
\* the row and when the database fails for a reason of its own.
Commits(recs, sess, row, commit) ==
    commit = "ok" /\ InsertAllowed(recs, sess, row)

\* Line 116: name and student_id and match_conf >= the configured threshold.
GoodMatch(enc) ==
    /\ enc # NoEncoding
    /\ enc.name # None
    /\ enc.id # None
    /\ enc.conf >= MinConfPct

\* _record_attendance(student_id, confidence) at time t in session sid, on the
\* state st = [records, processed, last, failed]; commit is what the database
\* does with the commit if it is reached.
RecordAttendance(st, sess, sid, student_id, confidence, t, commit) ==
    IF Debounced(st.last, student_id, t) THEN st
    ELSE LET seen == [st EXCEPT !.last[student_id] = Some(t)]
         IN IF student_id \in st.processed THEN seen
            ELSE IF IntOf(student_id) = Null THEN seen
            ELSE LET record == AutoRow(sid, IntOf(student_id)[1], "present", t,
                                       confidence)
                 IN IF Commits(st.records, sess, record, commit)
                    THEN [seen EXCEPT !.records = AddRow(@, record),
                                      !.processed = @ \cup {student_id}]
                    ELSE [seen EXCEPT !.failed = @ \cup {student_id}]

\* The loop of line 86 over the faces of a frame.
RECURSIVE RecordFaces(_, _, _, _, _)
RecordFaces(faces, st, sess, sid, t) ==
    IF faces = <<>> THEN st
    ELSE LET face == Head(faces)
             next == IF GoodMatch(face.enc)
                     THEN RecordAttendance(st, sess, sid, face.enc.id,
                                           face.enc.conf, t, face.commit)
                     ELSE st
         IN RecordFaces(Tail(faces), next, sess, sid, t)

\* start_session(class_id): a new ACTIVE session row; when the commit raises
\* the call returns False and nothing has changed.
camera_start_session(class_id) ==
    /\ FreeSessionIds(sessions) # {}
    /\ LET id == NewSessionId(sessions)
       IN /\ sessions' = [sessions EXCEPT ![id] =
                            [SessionRow("active", now, DefaultPresentWindow,
                                        DefaultLateWindow)
                               EXCEPT !.class_id = class_id]]
          /\ active_session_id' = Some(id)
    /\ processed_students' = {}
    /\ failed_students' = {}
    /\ UNCHANGED <<now, records, last_process_time, cacheVars, frameVars,
                   ghostVars, modelVars, matcherVars, create_call, reportVars,
                   configVars, simpleVars, resourceVars>>

\* stop_session(): when the commit raises active_session_id is kept.
camera_stop_session ==
    /\ active_session_id # Null
    /\ sessions' = [sessions EXCEPT ![active_session_id[1]] =
                       [@ EXCEPT !.end_time = Some(now),
                                 !.status = "completed"]]
    /\ active_session_id' = Null
    /\ UNCHANGED <<now, records, processed_students, last_process_time,
                   failed_students, cacheVars, frameVars, ghostVars, modelVars,
                   matcherVars, create_call, reportVars, configVars, simpleVars, resourceVars>>

\* process_frame(frame): the frame is the list of its faces, each with what
\* the matcher makes of it and what the database does with a commit.
camera_process_frame(faces) ==
    /\ IF active_session_id = Null
       THEN UNCHANGED <<records, processed_students, last_process_time,
                        failed_students>>
       ELSE LET st == RecordFaces(faces,
                         [records |-> records, processed |-> processed_students,
                          last |-> last_process_time, failed |-> failed_students],
                         sessions, active_session_id[1], now)
            IN /\ records' = st.records
               /\ processed_students' = st.processed
               /\ last_process_time' = st.last
               /\ failed_students' = st.failed
    /\ UNCHANGED <<now, sessions, active_session_id, cacheVars, frameVars,
                   ghostVars, modelVars, matcherVars, create_call, reportVars,
                   configVars, simpleVars, resourceVars>>

\* The frame loop of run() goes on while time passes: one debounce period.
CameraWait ==
    /\ now < MaxWaits * DebounceSeconds * TicksPerSecond
    /\ now' = now + DebounceSeconds * TicksPerSecond
    /\ UNCHANGED <<dbVars, cacheVars, frameVars, ghostVars, modelVars, sideVars,
                   matcherVars, create_call>>

CameraEncodings ==
    {Accepted("s1", 70), Accepted("s2", 70), Accepted("s1", 50), Rejected(20),
     NoEncoding, [id |-> Guest, name |-> "G", conf |-> 70]}
CameraFaces == [enc : CameraEncodings, commit : {"ok", "error"}]
CameraFrames ==
    {<<f>> : f \in CameraFaces}
       \cup {<<f, g>> : f \in {h \in CameraFaces : h.enc = Accepted("s1", 70)},
                       g \in {h \in CameraFaces : h.commit = "ok"}}

\* ------------------------------------------------ ResourceManager, as calls
\* get_resource(name, factory): the whole body runs under the lock.
get_resource(t, name, kind) ==
    /\ rm_pc[t] = "idle"
    /\ lock = Null
    /\ IF Registered(resources, name)
       THEN UNCHANGED <<resources, registrations>>
       ELSE /\ registrations < MaxRegistrations
            /\ resources' = Append(resources, [name |-> name, kind |-> kind])
            /\ registrations' = registrations + 1
    /\ rm_call' = [rm_call EXCEPT ![t] = [op |-> "get_resource", name |-> name]]
    /\ UNCHANGED <<lock, rm_pc, rm_result, apiVars, reportVars, configVars,
                   simpleVars, cameraVars>>

\* cleanup_resource(name), called from outside: line 203 is reached.
cleanup_resource(t, name) ==
    /\ rm_pc[t] = "idle"
    /\ rm_pc' = [rm_pc EXCEPT ![t] = "acquire"]
    /\ rm_call' = [rm_call EXCEPT ![t] =
                      [op |-> "cleanup_resource", name |-> name,
                       names |-> <<>>, snapshot |-> <<>>, released |-> <<>>]]
    /\ UNCHANGED <<resources, lock, rm_result, registrations, apiVars,
                   reportVars, configVars, simpleVars, cameraVars>>

\* Line 203, 'with self.lock': threading.Lock is not reentrant, the thread
\* waits until nobody holds the lock, itself included.
AcquireLock(t) ==
    /\ rm_pc[t] = "acquire"
    /\ lock = Null
    /\ lock' = Some(t)
    /\ rm_pc' = [rm_pc EXCEPT ![t] = "locked"]
    /\ UNCHANGED <<resources, rm_call, rm_result, registrations, apiVars,
                   reportVars, configVars, simpleVars, cameraVars>>

\* Lines 204-212 and the end of the with block: the resource is released by
\* the method it offers and deleted, the lock is released, and the call
\* returns to the loop of cleanup_all or to its outside caller.
CleanupLocked(t) ==
    /\ rm_pc[t] = "locked"
    /\ resources' = Deleted(resources, rm_call[t].name)
    /\ lock' = Null
    /\ rm_call' = [rm_call EXCEPT ![t].released =
                      IF Registered(resources, rm_call[t].name)
                      THEN Append(@, rm_call[t].name) ELSE @]
    /\ rm_pc' = [rm_pc EXCEPT ![t] = IF rm_call[t].op = "cleanup_all"
                                     THEN "loop" ELSE "idle"]
    /\ UNCHANGED <<rm_result, registrations, apiVars, reportVars, configVars,
                   simpleVars, cameraVars>>

\* cleanup_all(), lines 216-217: the lock is taken and the names are listed.
cleanup_all(t) ==
    /\ rm_pc[t] = "idle"
    /\ lock = Null
    /\ lock' = Some(t)
    /\ rm_pc' = [rm_pc EXCEPT ![t] = "loop"]
    /\ rm_call' = [rm_call EXCEPT ![t] =
                      [op |-> "cleanup_all", name |-> "",
                       names |-> Keys(resources), snapshot |-> Keys(resources),
                       released |-> <<>>]]
    /\ rm_result' = [rm_result EXCEPT ![t] = NoCall]
    /\ UNCHANGED <<resources, registrations, apiVars, reportVars, configVars,
                   simpleVars, cameraVars>>

\* Line 218: self.cleanup_resource(name) for the next name, with the lock of
\* line 216 still held.
CleanupAllCall(t) ==
    /\ rm_pc[t] = "loop"
    /\ rm_call[t].names # <<>>
    /\ rm_pc' = [rm_pc EXCEPT ![t] = "acquire"]
    /\ rm_call' = [rm_call EXCEPT ![t].name = Head(rm_call[t].names),
                                  ![t].names = Tail(rm_call[t].names)]
    /\ UNCHANGED <<resources, lock, rm_result, registrations, apiVars,
                   reportVars, configVars, simpleVars, cameraVars>>

\* The loop is over: the with block of line 216 ends and cleanup_all returns.
CleanupAllReturn(t) ==
    /\ rm_pc[t] = "loop"
    /\ rm_call[t].names = <<>>
    /\ lock' = Null
    /\ rm_pc' = [rm_pc EXCEPT ![t] = "idle"]
    /\ rm_result' = [rm_result EXCEPT ![t] =
                        [snapshot |-> rm_call[t].snapshot,
                         released |-> rm_call[t].released,
                         resources |-> resources]]
    /\ UNCHANGED <<resources, rm_call, registrations, apiVars, reportVars,
                   configVars, simpleVars, cameraVars>>

\* What a thread inside a call does next.
RmStep(t) ==
    \/ AcquireLock(t)
    \/ CleanupLocked(t)
    \/ CleanupAllCall(t)
    \/ CleanupAllReturn(t)

\* ------------------------------------------------- FaceMatcher, as calls
\* The metadata argument: None, an empty dict or a dict with entries.
NoMetadata == [none |-> TRUE]
EmptyDict == [dict |-> {}]
SomeMetadata == [dict |-> {<<"source", "upload">>}]

\* Faulty variant: metadata is stored only when it was given.
AppendMetadataIfGiven(list, metadata) ==
    IF metadata = NoMetadata THEN list ELSE Append(list, metadata)

\* self.known_face_metadata.append(metadata or {})
AppendMetadata(list, metadata) ==
    Append(list, IF metadata = NoMetadata \/ metadata.dict = {}
                 THEN EmptyDict ELSE metadata)

\* add_known_face, where enc is what extract_face_features made of the image:
\* with an embedding the four lists get one entry each and the call returns
\* True, without one nothing is stored and it returns False.
add_known_face(enc, student_id, student_name, metadata) ==
    /\ Len(known_face_encodings) < MaxKnown
    /\ IF enc # NoEncoding
       THEN /\ known_face_encodings' = Append(known_face_encodings, enc)
            /\ known_face_ids' = Append(known_face_ids, student_id)
            /\ known_face_names' = Append(known_face_names, student_name)
            /\ known_face_metadata' = AppendMetadata(known_face_metadata, metadata)
       ELSE UNCHANGED storeVars
    /\ add_call' = [face_encoding |-> enc, student_id |-> student_id,
                    student_name |-> student_name, metadata |-> metadata,
                    returned |-> enc # NoEncoding]
    /\ face_encoding' = NoEncoding
    /\ recognized' = NoCall
    /\ database_path' = NoCall
    /\ UNCHANGED <<pipelineVars, modelVars, sideVars>>

\* A call of recognize_face with the threshold get_models configures.
recognize_call(q) ==
    /\ face_encoding' = q
    /\ recognized' = recognize_face(known_face_encodings, known_face_ids,
                                    known_face_names, MinConfPct, q)
    /\ UNCHANGED <<storeVars, database_path, add_call, pipelineVars, modelVars, sideVars>>

\* What may lie at the database path: nothing, a file pickle.load or data.get
\* fails on, or a file save_known_faces wrote.
MissingFile ==
    [exists |-> FALSE, readable |-> FALSE,
     encodings |-> <<>>, ids |-> <<>>, names |-> <<>>, metadata |-> <<>>]
CorruptFile ==
    [exists |-> TRUE, readable |-> FALSE,
     encodings |-> <<>>, ids |-> <<>>, names |-> <<>>, metadata |-> <<>>]
SavedFile(encodings, ids, names, metadata) ==
    [exists |-> TRUE, readable |-> TRUE,
     encodings |-> encodings, ids |-> ids, names |-> names,
     metadata |-> metadata]
DatabaseFiles ==
    {MissingFile, CorruptFile, SavedFile(<<>>, <<>>, <<>>, <<>>),
     SavedFile(EnrolledEncodings, EnrolledIds, EnrolledNames,
               <<EmptyDict, EmptyDict>>)}

\* load_known_faces: the three lists are assigned only after pickle.load
\* succeeded; a missing file is logged as a warning and an exception as an
\* error, and in both cases no attribute is assigned.
load_known_faces(file) ==
    /\ database_path' = file
    /\ IF file.exists /\ file.readable
       THEN /\ known_face_encodings' = file.encodings
            /\ known_face_ids' = file.ids
            /\ known_face_names' = file.names
            /\ known_face_metadata' = file.metadata
       ELSE UNCHANGED storeVars
    /\ face_encoding' = NoEncoding
    /\ recognized' = NoCall
    /\ add_call' = NoCall
    /\ UNCHANGED <<pipelineVars, modelVars, sideVars>>

\* ------------------------------------------------------------ get_models
\* get_models (lines 56-71), called by process_frame at line 125, one step per
\* read or write of a module global. Nothing is locked, and building a model
\* takes long enough for another thread to run in between.

\* Line 58: if detector is None.
CheckDetector(c) ==
    /\ gm_pc[c] \in {"idle", "done"}
    /\ gm_pc' = [gm_pc EXCEPT ![c] =
                   IF detector = Null THEN "new_detector" ELSE "check_matcher"]
    /\ obtained' = [obtained EXCEPT ![c] = NoModels]
    /\ UNCHANGED <<detector, matcher, loaded, constructed, requestVars>>

\* Lines 59-61: detector = YOLOFaceDetector(...).
NewDetector(c) ==
    /\ gm_pc[c] = "new_detector"
    /\ constructed' = [constructed EXCEPT !.detector = @ + 1]
    /\ detector' = Some(constructed'.detector)
    /\ gm_pc' = [gm_pc EXCEPT ![c] = "check_matcher"]
    /\ UNCHANGED <<matcher, loaded, obtained, requestVars>>

\* Line 62: if matcher is None.
CheckMatcher(c) ==
    /\ gm_pc[c] = "check_matcher"
    /\ gm_pc' = [gm_pc EXCEPT ![c] =
                   IF matcher = Null THEN "new_matcher" ELSE "return"]
    /\ UNCHANGED <<detector, matcher, loaded, constructed, obtained, requestVars>>

\* Lines 63-66: matcher = FaceMatcher(...), with no known faces yet.
NewMatcher(c) ==
    /\ gm_pc[c] = "new_matcher"
    /\ constructed' = [constructed EXCEPT !.matcher = @ + 1]
    /\ matcher' = Some(constructed'.matcher)
    /\ gm_pc' = [gm_pc EXCEPT ![c] = "load"]
    /\ UNCHANGED <<detector, loaded, obtained, requestVars>>

\* Lines 68-70: matcher.load_known_faces(db_path), on the object the global
\* names when the call is made.
LoadKnownFaces(c) ==
    /\ gm_pc[c] = "load"
    /\ loaded' = loaded \cup {matcher}
    /\ gm_pc' = [gm_pc EXCEPT ![c] = "return"]
    /\ UNCHANGED <<detector, matcher, constructed, obtained, requestVars>>

\* Line 71: return detector, matcher.
ReturnModels(c) ==
    /\ gm_pc[c] = "return"
    /\ obtained' = [obtained EXCEPT ![c] = [detector |-> detector, matcher |-> matcher]]
    /\ gm_pc' = [gm_pc EXCEPT ![c] = "done"]
    /\ UNCHANGED <<detector, matcher, loaded, constructed, requestVars>>

get_models(c) ==
    \/ CheckDetector(c)
    \/ NewDetector(c)
    \/ CheckMatcher(c)
    \/ NewMatcher(c)
    \/ LoadKnownFaces(c)
    \/ ReturnModels(c)

\* -------------------------------------------------------- specifications
\* Frames of one session and manual records, served one at a time.
Next ==
    \/ Tick
    \/ process_frame(1, {1}, FacesRecord, MaxFaces)
    \/ /\ pc[1] = "idle"
       /\ \E x \in Students, st \in AttendanceStatus :
             manage_session_records(1, x, st)

Spec == Init /\ [][Next]_vars

\* Frames of an existing and of a missing session, with sessions being
\* completed and deleted between frames.
NextSession ==
    \/ Tick
    \/ process_frame(1, SessionIds, FacesRace, MaxFaces)
    \/ /\ pc[1] = "idle"
       /\ \/ \E sid \in SessionIds, st \in SessionStatus : update_session(sid, st)
          \/ \E sid \in SessionIds : delete_session(sid)
          \/ \E sid \in SessionIds : end_class_session(sid)

SpecSession == InitNow /\ [][NextSession]_vars

\* Frames of one session served one at a time, several boxes.
NextCache ==
    \/ Tick
    \/ process_frame(1, {1}, FacesCache, MaxFacesCache)

SpecCache == InitNow /\ [][NextCache]_vars

\* Two worker threads serving frames of one session at once.
NextRace ==
    \E w \in Workers : process_frame(w, {1}, FacesRace, MaxFacesRace)

SpecRace == Init /\ [][NextRace]_vars

\* Frames of two ACTIVE sessions, served one at a time.
NextPair ==
    process_frame(1, SessionIds, FacesRace, MaxFaces)

SpecPair == InitBoth /\ [][NextPair]_vars

\* Frames of one session, manual records and record updates, served one at
\* a time.
NextRecords ==
    \/ process_frame(1, {1}, FacesRecord, MaxFaces)
    \/ /\ pc[1] = "idle"
       /\ \E x \in Students, st \in AttendanceStatus :
             manage_session_records(1, x, st)
    \/ /\ pc[1] = "idle"
       /\ \E row \in BagToSet(records), data \in RecordUpdates :
             manage_record(row, data)

SpecRecords == Init /\ [][NextRecords]_vars

\* Sessions being created, completed and deleted while time passes.
NextCreate ==
    \/ Tick
    \/ \E p \in WindowInputs, l \in WindowInputs : create_session(p, l)
    \/ start_class_session
    \/ \E sid \in SessionIds, st \in SessionStatus : update_session(sid, st)
    \/ \E sid \in SessionIds : delete_session(sid)

InitEmpty == InitTables([s \in SessionIds |-> NoSession])

SpecCreate == InitEmpty /\ [][NextCreate]_vars

\* Frames of several detections, some of which fail in extraction or in
\* the matcher.
NextFrame ==
    process_frame_traced(1, {1}, FacesMixed, MaxFacesFrame)

SpecFrame == InitNow /\ [][NextFrame]_vars

\* Frames of one session whose detections are matched against the enrolled
\* store, served one at a time.
NextPipeline ==
    process_frame(1, {1}, FacesMatched, MaxFaces)

SpecPipeline == InitNow /\ [][NextPipeline]_vars

\* The matcher alone: faces are registered and embeddings are looked up.
NextMatcher ==
    \/ \E enc \in Encodings, x \in Students :
          add_known_face(enc, x, NameOf(x), NoMetadata)
    \/ \E q \in Encodings \cup {NoEncoding} : recognize_call(q)

SpecMatcher == InitEmpty /\ [][NextMatcher]_vars

\* The matcher with its database file: faces are registered, the database is
\* loaded again (reload_face_database) and embeddings are looked up.
NextLoad ==
    \/ \E enc \in Encodings, x \in Students :
          add_known_face(enc, x, NameOf(x), NoMetadata)
    \/ \E file \in DatabaseFiles : load_known_faces(file)
    \/ \E q \in Encodings \cup {NoEncoding} : recognize_call(q)

SpecLoad == InitEmpty /\ [][NextLoad]_vars

\* Enrollment alone: faces are added, with images that yield an embedding and
\* images that yield none, with and without metadata.
EnrollEncodings ==
    {NoEncoding, Embedding(DlibLen, <<0, 0, 0, 0>>),
     Embedding(ResNetLen, <<10, 0, 0, 0>>)}

NextEnroll ==
    \E enc \in EnrollEncodings, x \in Students,
       metadata \in {NoMetadata, EmptyDict, SomeMetadata} :
       add_known_face(enc, x, NameOf(x), metadata)

SpecEnroll == InitEmpty /\ [][NextEnroll]_vars

\* A session of either class: students are enrolled and unenrolled, records
\* are created by hand and the report is fetched.
InitReport ==
    \E c \in Classes :
       InitTables([s \in SessionIds |->
                     IF s = 1
                     THEN [SessionRow("active", 0, DefaultPresentWindow,
                                      DefaultLateWindow) EXCEPT !.class_id = c]
                     ELSE NoSession])

NextReport ==
    \/ \E c \in Classes, method \in {"POST", "DELETE"}, x \in Students :
          admin_class_enroll_api(c, method, x)
    \/ \E x \in Students, st \in {"present", "absent"} :
          manage_session_records(1, x, st)
    \/ \E sid \in SessionIds : get_session_records(sid)

SpecReport == InitReport /\ [][NextReport]_vars

\* The configuration alone: values are set and looked up.
NextConfig ==
    \/ \E key \in ConfigKeys, value \in ConfigValues : config_set(key, value)
    \/ \E key \in ConfigKeys, default \in {PyNone, Scalar(9)} :
          config_get(key, default)

SpecConfig == InitEmpty /\ [][NextConfig]_vars

NextResources ==
    \/ \E t \in RmThreads, name \in RmNames, kind \in RmKinds :
          get_resource(t, name, kind)
    \/ \E t \in RmThreads, name \in RmNames : cleanup_resource(t, name)
    \/ \E t \in RmThreads : cleanup_all(t)
    \/ \E t \in RmThreads : AcquireLock(t)
    \/ \E t \in RmThreads : CleanupLocked(t)
    \/ \E t \in RmThreads : CleanupAllCall(t)
    \/ \E t \in RmThreads : CleanupAllReturn(t)

SpecResources == InitEmpty /\ [][NextResources]_vars

\* The camera pipeline next to a teacher who marks students by hand.
NextCamera ==
    \/ CameraWait
    \/ camera_start_session(1)
    \/ camera_stop_session
    \/ \E faces \in CameraFrames : camera_process_frame(faces)
    \/ /\ active_session_id # Null
       /\ manage_session_records(active_session_id[1], "s1", "absent")

SpecCamera == InitEmpty /\ [][NextCamera]_vars

\* SimpleAttendanceSystem without a liveness detector: the loop has not
\* started, or it started now or one of the windows ago.
SimpleStarts ==
    {Null, Some(0), Some(0 - present_window_minutes * TicksPerMinute),
     Some(0 - late_window_minutes * TicksPerMinute),
     Some(0 - (present_window_minutes + late_window_minutes) * TicksPerMinute)}

InitSimple ==
    /\ InitCore([s \in SessionIds |-> NoSession])
    /\ ModelsWarm
    /\ CameraConstructed
    /\ ResourcesConstructed
    /\ attendance_records = [x \in Students |-> NoEntry]
    /\ session_start \in SimpleStarts
    /\ liveness_detector = Null
    /\ simple_call = NoCall

NextSimple ==
    \/ Tick
    \/ \E faces \in SimpleFrames(liveness_detector) : simple_process_frame(faces)
    \/ simple_run
    \/ reset_attendance

SpecSimple == InitSimple /\ [][NextSimple]_vars

\* SimpleAttendanceSystem with a liveness detector, with or without MediaPipe.
InitLiveness ==
    /\ InitCore([s \in SessionIds |-> NoSession])
    /\ ModelsWarm
    /\ CameraConstructed
    /\ ResourcesConstructed
    /\ \E model_available \in BOOLEAN :
          SimpleConstructed(Some([model_available |-> model_available]))

SpecLiveness == InitLiveness /\ [][NextSimple]_vars

\* Request threads calling get_models at once, from a cold start.
NextModels ==
    \E c \in Callers : get_models(c)

InitCold == InitState([s \in SessionIds |-> NoSession]) /\ ModelsCold

SpecModels == InitCold /\ [][NextModels]_vars

\* Two worker threads serving frames of one session at once, while time
\* passes.
NextStale ==
    \/ ClockStep(MaxTimeStale)
    \/ \E w \in Workers : process_frame(w, {1}, FacesStale, MaxFacesRace)

SpecStale == InitNow /\ [][NextStale]_vars

\* Two worker threads serving frames of one session at once, with the
\* history of each call kept.
NextSerial ==
    \E w \in Workers : process_frame_traced(w, {1}, FacesSerial, MaxFacesRace)

SpecSerial == InitNow /\ [][NextSerial]_vars

\* ================================================================ claims
Seen(w) == last[w] # NoDetection
LastReported(w) == recognitions[w][Len(recognitions[w])]
PresentTicks(sess) == sess.present_window_minutes * TicksPerMinute
LateTicks(sess) ==
    (sess.present_window_minutes + sess.late_window_minutes) * TicksPerMinute

\* C1: every (session, student) pair has at most one attendance record, and
\* a detection of a student whose record already exists writes nothing and
\* is reported with the status of that record.
C1_OneRecordPerPair ==
    /\ \A s \in SessionIds, x \in Students : RowCount(records, s, x) <= 1
    /\ \A w \in Workers :
          (Seen(w) /\ last[w].existed) =>
             /\ ~last[w].wrote
             /\ ~last[w].classified
             /\ \A r \in RowsOf(records, session_id[w], last[w].student_id) :
                   /\ last[w].status = r.status
                   /\ LastReported(w).status = r.status
                   /\ LastReported(w).student_id = r.student_id

C1_Witness ==
    \E w \in Workers :
       /\ Seen(w) /\ last[w].existed /\ last[w].status = "late"
       /\ \E r \in RowsOf(records, session_id[w], last[w].student_id) :
             r.manual_override
       /\ \E x \in Students : x # last[w].student_id
             /\ \E r \in RowsOf(records, session_id[w], x) : r.status = "present"

\* Both workers found no record for the same student and both went on to
\* insert one.
BothInserted(w1, w2) ==
    /\ w1 # w2 /\ Seen(w1) /\ Seen(w2)
    /\ session_id[w1] = session_id[w2]
    /\ last[w1].student_id = last[w2].student_id
    /\ \A w \in {w1, w2} :
          /\ ~last[w].existed
          /\ last[w].classified
          /\ last[w].new_status # "absent"

\* C2: when two concurrent frames of one session both find no record for the
\* same student and both insert one, exactly one row for the pair is stored.
C2_RaceOneRow ==
    \A w1 \in Workers, w2 \in Workers :
       BothInserted(w1, w2) =>
          RowCount(records, session_id[w1], last[w1].student_id) = 1

C2_Witness ==
    \E w1 \in Workers, w2 \in Workers :
       /\ BothInserted(w1, w2)
       /\ last[w1].wrote /\ last[w2].conflict
       /\ RowCount(records, session_id[w1], last[w1].student_id) = 1

\* C3: the frame that loses the duplicate-insert race ends normally: no 500
\* response, and its detection is reported with the winner's status.
C3_LoserAlreadyRecorded ==
    \A w \in Workers :
       (Seen(w) /\ last[w].conflict) =>
          /\ resp[w] # 500
          /\ \A r \in RowsOf(records, session_id[w], last[w].student_id) :
                last[w].status = r.status

\* C4: a matched student without a record is marked PRESENT when the elapsed
\* time is at most present_window_minutes, and LATE when it is above that and
\* at most present_window_minutes + late_window_minutes.
C4_WindowClassification ==
    \A w \in Workers :
       (Seen(w) /\ last[w].classified /\ ~last[w].error) =>
          LET sess == sessions[session_id[w]]
              e == last[w].elapsed
              expected == IF e <= PresentTicks(sess) THEN "present" ELSE "late"
          IN e <= LateTicks(sess) =>
                /\ last[w].status = expected
                /\ last[w].wrote
                /\ LastReported(w).status = expected
                /\ \E r \in RowsOf(records, session_id[w], last[w].student_id) :
                      r.status = expected /\ ~r.manual_override

\* PRESENT exactly at the present boundary, LATE one tick after it.
C4_Witness ==
    \E w \in Workers :
       /\ Seen(w) /\ last[w].classified /\ last[w].wrote
       /\ last[w].elapsed = PresentTicks(sessions[session_id[w]]) + 1
       /\ last[w].status = "late"
       /\ \E r \in BagToSet(records) :
             /\ r.session_id = session_id[w]
             /\ r.status = "present" /\ ~r.manual_override
             /\ r.detected_at - sessions[session_id[w]].start_time
                   = PresentTicks(sessions[session_id[w]])

\* C5: a matched student without a record detected after both windows is
\* reported 'absent' and nothing is written; no record written by
\* process_frame has status ABSENT.
C5_AbsentNeverWritten ==
    /\ \A w \in Workers :
          (Seen(w) /\ last[w].classified
                   /\ last[w].elapsed > LateTicks(sessions[session_id[w]])) =>
             /\ last[w].status = "absent"
             /\ LastReported(w).status = "absent"
             /\ ~last[w].wrote
             /\ RowCount(records, session_id[w], last[w].student_id) = 0
    /\ \A w \in Workers : (Seen(w) /\ last[w].wrote) => last[w].status # "absent"
    /\ \A r \in BagToSet(records) : ~r.manual_override => r.status # "absent"

C5_Witness ==
    \E w \in Workers :
       /\ Seen(w) /\ last[w].classified
       /\ last[w].elapsed = LateTicks(sessions[session_id[w]]) + 1
       /\ last[w].status = "absent"
       /\ records = EmptyBag

\* C6: a frame that arrives after its session became COMPLETED writes no
\* record and neither inserts nor refreshes an entry of the session's cache.
C6_CompletedIgnored ==
    \A w \in Workers :
       (call_status[w] = "completed" /\ Seen(w)) =>
          /\ ~last[w].wrote
          /\ ~last[w].insert
          /\ ~last[w].hit

\* C7: a frame for a session that does not exist or is not ACTIVE is
\* answered without an error and writes no record.
C7_InactiveSessionNoError ==
    \A w \in Workers :
       (call_status[w] # "active" /\ resp[w] # 400) =>
          /\ resp[w] # 500
          /\ Seen(w) => ~last[w].wrote

C9_NoUnknownCached ==
    /\ \A s \in SessionIds : \A i \in 1 .. Len(recognition_cache[s]) :
          heap[recognition_cache[s][i]].id # None
    /\ \A w \in Workers : \A i \in 1 .. Len(new_cache_entries[w]) :
          heap[new_cache_entries[w][i]].id # None
    /\ \A w \in Workers :
          (Seen(w) /\ ~last[w].overlap) =>
             /\ last[w].extract
             /\ ~last[w].skip => last[w].recognize
             /\ last[w].student_id = None => ~last[w].insert

\* A pipeline-rejected match left the cache empty and the same box is
\* matched afresh.
C9_Witness ==
    \E w \in Workers :
       /\ Seen(w) /\ last[w].recognize
       /\ last[w].student_id = None /\ last[w].match_conf = 50
       /\ n_faces[w] = 1
       /\ recognition_cache[session_id[w]] = <<>>
       /\ new_cache_entries[w] = <<>>

\* C10: within one session's cache no entry occurs twice and no two entries
\* have boxes with mutual IOU > 0.6.
C10_CacheEntriesDisjoint ==
    \A s \in SessionIds :
       \A i \in 1 .. Len(recognition_cache[s]), j \in 1 .. Len(recognition_cache[s]) :
          i < j =>
             /\ recognition_cache[s][i] # recognition_cache[s][j]
             /\ ~IouAccepted(calculate_iou(heap[recognition_cache[s][i]].box,
                                           heap[recognition_cache[s][j]].box))

\* C11: when several entries of the session's cache overlap a detection with
\* IOU > 0.6, the detection is resolved from the one with the highest IOU.
C11_HighestIouWins ==
    \A w \in Workers :
       (Seen(w) /\ last[w].hit) =>
          \A b \in last[w].others :
             ~IouLess(calculate_iou(last[w].box, last[w].src.box),
                      calculate_iou(last[w].box, b))

\* C12: no detection is resolved from a cache entry last seen more than
\* 0.5 s before the frame's time.
C12_NoStaleHit ==
    \A w \in Workers :
       (Seen(w) /\ last[w].hit) =>
          ~(2 * (current_time[w] - last[w].src.timestamp) > TicksPerSecond)

\* The session a step of worker w works for.
SessionOf(w) == IF pc[w] = "idle" THEN session_id'[w] ELSE session_id[w]

\* C13: a detection in a frame of session A is a cache hit only when an entry
\* of A's own list overlaps it, and no step of a frame of A changes the
\* entries of another session B.
C13_SessionsIsolated ==
    /\ [](\A w \in Workers : (Seen(w) /\ last[w].hit) => last[w].overlap)
    /\ [][\A w \in Workers, b \in SessionIds :
             (pc'[w] # pc[w] /\ b # SessionOf(w)) =>
                CacheEntries(recognition_cache', heap', b)
                   = CacheEntries(recognition_cache, heap, b)]_vars

\* A box cached in session 1 is matched afresh in a frame of session 2.
C13_Witness ==
    \E w \in Workers :
       /\ Seen(w) /\ session_id[w] = 2
       /\ ~last[w].hit /\ last[w].extract /\ last[w].recognize
       /\ \E i \in 1 .. Len(recognition_cache[1]) :
             /\ heap[recognition_cache[1][i]].box = last[w].box
             /\ EntryLive(current_time[w], heap[recognition_cache[1][i]].timestamp)

\* The entries one frame leaves in the session's list when it runs alone.
\* objs are the entry objects, lst the list found and new the list being
\* built, both lists of positions in objs.
RECURSIVE SerialLoop(_, _, _, _, _)
SerialLoop(objs, lst, new, faces, t) ==
    IF faces = <<>> THEN Aliased(new, objs)
    ELSE LET face == Head(faces)
             idx == CacheLookup(lst, objs, face.box)
             ok == face.enc # NoEncoding /\ PipelineAccepts(face.enc.conf)
         IN IF idx # 0
            THEN SerialLoop([objs EXCEPT ![lst[idx]] =
                               [@ EXCEPT !.timestamp = t, !.box = face.box]],
                            lst, Append(new, lst[idx]), Tail(faces), t)
            ELSE IF ok /\ ShouldCache(face.enc.id)
            THEN SerialLoop(Append(objs, [box |-> face.box,
                                          id |-> face.enc.id,
                                          name |-> face.enc.name,
                                          conf |-> face.enc.conf,
                                          timestamp |-> t]),
                            lst, Append(new, Len(objs) + 1), Tail(faces), t)
            ELSE SerialLoop(objs, lst, new, Tail(faces), t)

SerialFrame(entries, faces, t) ==
    LET objs == <<>> \o [i \in 1 .. Len(entries) |-> entries[i].e]
        lst == <<>> \o [i \in 1 .. Len(entries) |-> entries[i].first]
    IN SerialLoop(objs,
                  SelectSeq(lst, LAMBDA o : EntryLive(t, objs[o].timestamp)),
                  <<>>, faces, t)

\* Both calls have answered 200, w1 was in progress when w2 began, and both
\* found the same live entries.
Interleaved(w1, w2) ==
    /\ w1 # w2 /\ w1 \in rivals[w2]
    /\ pc[w1] = "done" /\ pc[w2] = "done"
    /\ resp[w1] = 200 /\ resp[w2] = 200
    /\ session_id[w1] = session_id[w2]
    /\ base[w1] = base[w2]

\* C14: after two interleaved calls for one session have finished, the
\* session's cache is the one some serial order of the two calls produces.
C14_CacheSerializable ==
    \A w1 \in Workers, w2 \in Workers :
       Interleaved(w1, w2) =>
          Aliased(recognition_cache[session_id[w1]], heap) \in
             {SerialFrame(SerialFrame(base[w1], frame[w1], current_time[w1]),
                          frame[w2], current_time[w2]),
              SerialFrame(SerialFrame(base[w1], frame[w2], current_time[w2]),
                          frame[w1], current_time[w1])}

\* C15: under concurrent first calls of get_models the detector and the
\* matcher are each constructed at most once, and every caller that has
\* returned holds a matcher whose known faces are loaded.
C15_InitOnce ==
    /\ constructed.detector <= 1
    /\ constructed.matcher <= 1
    /\ \A c \in Callers :
          gm_pc[c] = "done" => obtained[c].matcher \in loaded

\* C16: every row written by a manual operation (POST /sessions/<id>/records
\* or PUT /records/<id>) has manual_override = TRUE and override_by set to the
\* acting user.
C16_ManualWritesMarked ==
    [][pc' = pc =>
         \A r \in BagToSet(records') \ BagToSet(records) :
            r.manual_override /\ r.override_by = AdminUser]_vars

\* C17: no step of process_frame changes or removes a record that exists,
\* whether it was written manually or automatically.
C17_ExistingRecordsKept ==
    [][frameVars' # frameVars =>
         \A r \in BagToSet(records) :
            BagIn(r, records') /\ CopiesIn(r, records') >= CopiesIn(r, records)]_vars

\* A student with a manual absent record was detected again inside the
\* present window, and the record is still the manual one.
C17_Witness ==
    \E w \in Workers :
       /\ Seen(w) /\ last[w].existed /\ last[w].status = "absent"
       /\ now - sessions[session_id[w]].start_time
             <= PresentTicks(sessions[session_id[w]])
       /\ \E r \in RowsOf(records, session_id[w], last[w].student_id) :
             r.manual_override /\ r.status = "absent"

\* C18: a session that is COMPLETED is COMPLETED after every step that keeps
\* it, and a step that makes a session COMPLETED leaves its end_time set.
C18_CompletedIsFinal ==
    [][\A s \in SessionIds :
         (sessions[s] # NoSession /\ sessions'[s] # NoSession) =>
            /\ sessions[s].status = "completed" => sessions'[s].status = "completed"
            /\ (sessions[s].status # "completed" /\ sessions'[s].status = "completed")
                  => sessions'[s].end_time # Null]_vars

\* C19: every persisted session has 0 < present_window_minutes <
\* late_window_minutes, and a create_session call whose windows violate this
\* persists no session.
C19_WindowsValid ==
    /\ \A s \in SessionIds :
          sessions[s] # NoSession =>
             /\ 0 < sessions[s].present_window_minutes
             /\ sessions[s].present_window_minutes < sessions[s].late_window_minutes
    /\ (create_call # NoCall
          /\ ~(0 < create_call.present_window
                 /\ create_call.present_window < create_call.late_window)) =>
          /\ ~create_call.persisted
          /\ create_call.code = 500

\* create_session was called with equal windows while a session existed.
C19_Witness ==
    /\ create_call # NoCall
    /\ create_call.present_window = create_call.late_window
    /\ create_call.present_window > 0
    /\ create_call.code = 500
    /\ \E s \in SessionIds : sessions[s] # NoSession

\* C20: the record a frame has just created has status PRESENT or LATE,
\* detected_at equal to the time of the write, confidence_score equal to the
\* matcher confidence of the detection, a liveness score (not NULL), and
\* manual_override = FALSE.
C20_AutoRecordFields ==
    \A w \in Workers :
       (Seen(w) /\ last[w].wrote) =>
          \E r \in RowsOf(records, session_id[w], last[w].student_id) :
             /\ r.status \in {"present", "late"}
             /\ r.status = last[w].status
             /\ r.detected_at = sessions[session_id[w]].start_time + last[w].elapsed
             /\ r.confidence_score = Some(last[w].match_conf)
             /\ r.liveness_score # Null
             /\ ~r.manual_override

\* C21: a detection whose match confidence is below the pipeline minimum is
\* reported with no identity and status unknown, is not cached and creates no
\* record, even when the matcher accepted an identity for it; every automatic
\* record and every cache entry carries a confidence at or above the minimum.
C21_PipelineMinimum ==
    /\ \A w \in Workers :
          (Seen(w) /\ last[w].recognize /\ last[w].match_conf < MinConfPct) =>
             /\ last[w].student_id = None /\ last[w].name = None
             /\ last[w].status = "unknown"
             /\ LastReported(w).student_id = None
             /\ LastReported(w).student_name = None
             /\ ~last[w].insert /\ ~last[w].classified /\ ~last[w].wrote
             /\ pc[w] # "record"
    /\ \A r \in BagToSet(records) :
          ~r.manual_override => r.confidence_score[1] >= MinConfPct
    /\ \A s \in SessionIds : \A i \in 1 .. Len(recognition_cache[s]) :
          heap[recognition_cache[s][i]].conf >= MinConfPct

\* The matcher accepted s1 with confidence 0.50; the frame reported an
\* unknown face and left the table and the cache empty.
C21_Witness ==
    \E w \in Workers :
       /\ Seen(w) /\ last[w].recognize
       /\ last[w].answer = Accepted("s1", 50)
       /\ pc[w] = "done" /\ resp[w] = 200
       /\ LastReported(w).status = "unknown"
       /\ records = EmptyBag
       /\ recognition_cache[session_id[w]] = <<>>

\* C22: a detection that resolves to no identity is reported with status
\* unknown and writes no record; every automatic record belongs to a
\* registered student.
C22_UnknownNotRecorded ==
    /\ \A w \in Workers :
          (Seen(w) /\ ~last[w].skip /\ last[w].student_id = None) =>
             /\ last[w].status = "unknown"
             /\ LastReported(w).status = "unknown"
             /\ LastReported(w).student_id = None
             /\ ~last[w].classified /\ ~last[w].wrote
             /\ pc[w] # "record"
    /\ \A r \in BagToSet(records) : r.student_id \in Students

\* The matcher rejected the face (best confidence 0.20) while the table held
\* a record: the frame reported unknown.
C22_Witness ==
    \E w \in Workers :
       /\ Seen(w) /\ last[w].answer = Rejected(20)
       /\ LastReported(w).status = "unknown"
       /\ pc[w] = "done" /\ resp[w] = 200
       /\ \E r \in BagToSet(records) : ~r.manual_override

\* The detections of a frame that did not fail in extraction.
Extracted(faces) == SelectSeq(faces, LAMBDA f : f.enc # NoEncoding)

\* C23: a detection whose extraction or matching failed leaves no record and
\* no cache entry and raises nothing; the other detections of the frame are
\* reported, in order, and the frame is not answered 500.
C23_FailuresIsolated ==
    \A w \in Workers :
       /\ pc[w] = "done" => resp[w] # 500
       /\ (Seen(w) /\ (last[w].skip \/ last[w].answer = MatcherError)) =>
             /\ ~last[w].insert /\ ~last[w].classified /\ ~last[w].wrote
             /\ ~last[w].error
             /\ pc[w] \in {"loop", "done"}
       /\ \A i \in 1 .. Len(new_cache_entries[w]) :
             heap[new_cache_entries[w][i]].box \in OneBox
       /\ (pc[w] = "loop" \/ (pc[w] = "done" /\ resp[w] = 200)) =>
             LET kept == Extracted(frame[w])
             IN /\ Len(recognitions[w]) = Len(kept)
                /\ \A i \in 1 .. Len(kept) :
                      /\ recognitions[w][i].bounding_box = kept[i].box
                      /\ kept[i].enc = MatcherError =>
                            recognitions[w][i].status = "unknown"
                      /\ kept[i].enc # MatcherError =>
                            recognitions[w][i].student_id \in Students

\* A frame whose first detection failed in extraction and whose second was
\* recognised and recorded.
C23_Witness ==
    \E w \in Workers :
       /\ pc[w] = "done" /\ resp[w] = 200
       /\ Len(frame[w]) = 2
       /\ frame[w][1].enc = NoEncoding
       /\ frame[w][2].enc = Accepted("s1", 70)
       /\ Len(recognitions[w]) = 1
       /\ recognitions[w][1].student_id = "s1"
       /\ RowCount(records, session_id[w], "s1") = 1

\* C24: every per-detection result carries a confidence that is an integer
\* from 0 to 100.
C24_ConfidenceRange ==
    \A w \in Workers : \A i \in 1 .. Len(recognitions[w]) :
       recognitions[w][i].confidence \in 0 .. 100

\* C25: recognize_face returns (None, None, 0.0) for every query when the
\* store is empty, and for a null embedding whatever the store holds.
C25_EmptyOrNull ==
    (recognized # NoCall
       /\ (Len(known_face_encodings) = 0 \/ face_encoding = NoEncoding)) =>
       /\ recognized.id = None
       /\ recognized.name = None
       /\ recognized.conf = Ratio(0, 1)

\* A null embedding was looked up in a store that holds faces.
C25_Witness ==
    /\ recognized # NoCall
    /\ face_encoding = NoEncoding
    /\ Len(known_face_encodings) > 0

\* The stored embeddings of the length of the last query.
SameLengthStored ==
    {i \in 1 .. Len(known_face_encodings) :
       known_face_encodings[i].len = face_encoding.len}

\* C26: recognize_face scores a query only against stored embeddings of its own
\* length: the identity and the confidence it returns come from a stored
\* embedding of that length, and when the store holds none of that length the
\* result is (None, None, 0.0).
C26_DimensionalityIsolation ==
    (recognized # NoCall /\ face_encoding # NoEncoding) =>
       /\ recognized.id # None =>
             \E i \in SameLengthStored :
                /\ recognized.id = known_face_ids[i]
                /\ recognized.name = known_face_names[i]
                /\ RatioEqual(recognized.conf,
                              Similarity(face_encoding, known_face_encodings[i]))
       /\ SameLengthStored # {} =>
             \E i \in SameLengthStored :
                RatioEqual(recognized.conf,
                           Similarity(face_encoding, known_face_encodings[i]))
       /\ SameLengthStored = {} =>
             /\ recognized.id = None
             /\ recognized.name = None
             /\ recognized.conf = Ratio(0, 1)

\* The store holds an embedding of another length first and one of the query's
\* length second, and the query was matched to the second.
C26_Witness ==
    /\ recognized # NoCall
    /\ face_encoding # NoEncoding
    /\ Len(known_face_encodings) = 2
    /\ known_face_encodings[1].len # face_encoding.len
    /\ known_face_encodings[2].len = face_encoding.len
    /\ known_face_ids[1] # known_face_ids[2]
    /\ recognized.id = known_face_ids[2]

\* The similarity of the last query to the i-th stored embedding.
StoredSimilarity(i) == Similarity(face_encoding, known_face_encodings[i])

\* The stored embeddings of the query's length no other one of which is more
\* similar to the query.
MostSimilarStored ==
    {i \in SameLengthStored :
       \A j \in SameLengthStored :
          ~RatioLess(StoredSimilarity(i), StoredSimilarity(j))}

\* The threshold that applies to the last query, in hundredths.
ApplicableThreshold ==
    IF face_encoding.len = DlibLen THEN MinConfPct ELSE CosineThresholdPct

\* C27: recognize_face accepts the best candidate exactly when its confidence
\* is greater than or equal to the applicable threshold, and then returns that
\* candidate's id, name and confidence; below the threshold it returns
\* (None, None, best confidence).
C27_ThresholdInclusive ==
    (recognized # NoCall /\ face_encoding # NoEncoding
       /\ SameLengthStored # {}) =>
       \E i \in MostSimilarStored :
          LET best == StoredSimilarity(i)
          IN /\ RatioEqual(recognized.conf, best)
             /\ IF best.num * 100 >= ApplicableThreshold * best.den
                THEN /\ recognized.id = known_face_ids[i]
                     /\ recognized.name = known_face_names[i]
                ELSE /\ recognized.id = None
                     /\ recognized.name = None

\* A 128-d query whose best confidence is exactly the threshold was accepted.
C27_Witness ==
    /\ recognized # NoCall
    /\ face_encoding # NoEncoding
    /\ face_encoding.len = DlibLen
    /\ recognized.id # None
    /\ recognized.conf.num * 100 = MinConfPct * recognized.conf.den

\* The most similar stored embedding that was inserted first.
FirstMostSimilar ==
    CHOOSE i \in MostSimilarStored : \A j \in MostSimilarStored : i <= j

\* C28: among the stored embeddings of the query's length recognize_face
\* selects one of maximum confidence, and of several with that maximum the one
\* inserted first: an accepted query gets the id and name stored at that
\* position.
C28_FirstMaximumWins ==
    (recognized # NoCall /\ face_encoding # NoEncoding
       /\ SameLengthStored # {}) =>
       /\ RatioEqual(recognized.conf, StoredSimilarity(FirstMostSimilar))
       /\ recognized.id # None =>
             /\ recognized.id = known_face_ids[FirstMostSimilar]
             /\ recognized.name = known_face_names[FirstMostSimilar]

\* Two stored faces of different identities are equally and most similar to
\* the query, and the query was matched to the one inserted first.
C28_Witness ==
    /\ recognized # NoCall
    /\ face_encoding # NoEncoding
    /\ MostSimilarStored = {1, 2}
    /\ known_face_ids[1] # known_face_ids[2]
    /\ recognized.id = known_face_ids[1]

\* C29: a query identical to the 128-d embedding stored for A returns A's id
\* and name with confidence 1.0, and the first detection of A, at elapsed 0,
\* is recorded as PRESENT.
C29_IdenticalEmbedding ==
    LET e == EnrolledEncodings[1]
        r == recognize_face(EnrolledEncodings, EnrolledIds, EnrolledNames,
                            MinConfPct, e)
    IN /\ e.len = DlibLen
       /\ r.id = EnrolledIds[1]
       /\ r.name = EnrolledNames[1]
       /\ r.conf.num = r.conf.den
       /\ \A w \in Workers :
             (Seen(w) /\ last[w].recognize /\ last[w].answer = Matched(e)) =>
                /\ last[w].student_id = EnrolledIds[1]
                /\ last[w].name = EnrolledNames[1]
                /\ last[w].match_conf = 100
                /\ (~last[w].existed /\ last[w].classified
                      /\ last[w].elapsed = 0) =>
                      /\ last[w].wrote
                      /\ last[w].status = "present"
                      /\ LastReported(w).status = "present"
                      /\ \E row \in RowsOf(records, session_id[w], EnrolledIds[1]) :
                            /\ row.status = "present"
                            /\ ~row.manual_override
                            /\ row.confidence_score = Some(100)

\* The frame showed the face A was registered with, for the first time and
\* as the session started: A was reported present with confidence 100 and the
\* record was written.
C29_Witness ==
    \E w \in Workers :
       /\ Seen(w) /\ last[w].recognize
       /\ last[w].answer = Matched(EnrolledEncodings[1])
       /\ ~last[w].existed /\ last[w].classified /\ last[w].elapsed = 0
       /\ pc[w] = "done" /\ resp[w] = 200
       /\ LastReported(w).student_id = EnrolledIds[1]
       /\ LastReported(w).status = "present"
       /\ LastReported(w).confidence = 100
       /\ \E row \in RowsOf(records, session_id[w], EnrolledIds[1]) :
             row.status = "present"

\* C30: after load_known_faces was called on a missing or corrupt database
\* file the store is empty, and a later recognition finds no known face.
C30_LoadFailureEmpty ==
    (database_path # NoCall
       /\ ~(database_path.exists /\ database_path.readable)) =>
       /\ known_face_encodings = <<>>
       /\ known_face_ids = <<>>
       /\ known_face_names = <<>>
       /\ recognized # NoCall =>
             /\ recognized.id = None
             /\ recognized.conf = Ratio(0, 1)

\* The four lists of the store have the same length.
ParallelArrays ==
    /\ Len(known_face_ids) = Len(known_face_encodings)
    /\ Len(known_face_names) = Len(known_face_encodings)
    /\ Len(known_face_metadata) = Len(known_face_encodings)

\* C31: add_known_face with an embedding appends one entry to each of the four
\* lists, at the same index, and returns True; without an embedding it returns
\* False and leaves the store as it was; the four lists always have the same
\* length.
C31_AddKeepsArraysParallel ==
    /\ []ParallelArrays
    /\ [][(add_call' # add_call \/ storeVars' # storeVars) =>
            IF add_call'.face_encoding # NoEncoding
            THEN /\ add_call'.returned
                 /\ known_face_encodings'
                       = Append(known_face_encodings, add_call'.face_encoding)
                 /\ known_face_ids'
                       = Append(known_face_ids, add_call'.student_id)
                 /\ known_face_names'
                       = Append(known_face_names, add_call'.student_name)
                 /\ Len(known_face_metadata') = Len(known_face_metadata) + 1
                 /\ SubSeq(known_face_metadata', 1, Len(known_face_metadata))
                       = known_face_metadata
            ELSE /\ ~add_call'.returned
                 /\ UNCHANGED storeVars]_vars

\* A second face was added without metadata: the call returned True and each
\* list holds two entries.
C31_Witness ==
    /\ add_call # NoCall
    /\ add_call.returned
    /\ add_call.metadata = NoMetadata
    /\ Len(known_face_encodings) = 2
    /\ Len(known_face_metadata) = 2
    /\ known_face_ids[2] = add_call.student_id
    /\ known_face_encodings[2] = add_call.face_encoding

\* C32: in the report of a session every student enrolled in the session's
\* class appears exactly once, with the status of their record when one exists
\* and with status 'absent' when none exists.
C32_ReportCoversEnrolled ==
    (report # NoCall /\ report.code = 200) =>
       LET enrolled == {e.student_id :
                          e \in {f \in report.enrollments :
                                   f.class_id = report.class_id}}
           result == report.result
       IN /\ \A i \in 1 .. Len(result) : result[i].student_id \in enrolled
          /\ \A x \in enrolled :
                LET at == {i \in 1 .. Len(result) : result[i].student_id = x}
                    rows == {r \in report.existing_records : r.student_id = x}
                IN /\ Cardinality(at) = 1
                   /\ \A i \in at :
                         IF rows = {} THEN result[i].status = "absent"
                         ELSE \E r \in rows : result[i].status = r.status

\* The report of a session of class 1 in which s1 has a PRESENT record, s2 is
\* enrolled without a record and a student of class 2 is left out.
C32_Witness ==
    /\ report # NoCall /\ report.code = 200 /\ report.class_id = 1
    /\ [class_id |-> 2, student_id |-> "s1"] \in report.enrollments
    /\ [class_id |-> 2, student_id |-> "s2"] \notin report.enrollments
    /\ Len(report.result) = 2
    /\ \E i, j \in 1 .. 2 :
          /\ report.result[i].student_id = "s1"
          /\ report.result[i].status = "present"
          /\ report.result[j].student_id = "s2"
          /\ report.result[j].status = "absent"
          /\ report.result[j].check_in_time = Null

\* C33: get(k) right after set(k, v) returns v, for every key; get of a key
\* path that is not present returns the default and does not raise.
C33_SetThenGet ==
    (config_call # NoCall /\ config_call.op = "get") =>
       /\ config_call.raised = "no"
       /\ Walk(_config, Split(config_call.key)).raised # "no" =>
             config_call.returned = config_call.arg
       /\ (config_call.after # NoCall /\ config_call.after.op = "set"
             /\ config_call.after.key = config_call.key) =>
             /\ config_call.after.raised = "no"
             /\ config_call.returned = config_call.after.arg

\* The position of the entry a lookup of box selects in a list of entries.
HitPosition(entries, box) ==
    CHOOSE k \in 1 .. Len(entries) :
       /\ IouAccepted(calculate_iou(box, entries[k].e.box))
       /\ \A j \in 1 .. k - 1 :
             ~IouAccepted(calculate_iou(box, entries[j].e.box))

C35_RemovedOnlyByTtl ==
    [][\A w \in Workers :
         LET sid == IF pc[w] = "idle" THEN session_id'[w] ELSE session_id[w]
             kept == {heap'[recognition_cache'[sid][j]] :
                        j \in 1 .. Len(recognition_cache'[sid])}
         IN /\ (pc[w] = "idle" /\ pc'[w] = "loop") =>
                  \A i \in 1 .. Len(recognition_cache[sid]) :
                     LET entry == heap[recognition_cache[sid][i]]
                     IN (now - entry.timestamp) * 2 <= TicksPerSecond =>
                           entry \in kept
            /\ (pc[w] = "loop" /\ pc'[w] = "done" /\ resp'[w] = 200) =>
                  \A i \in 1 .. Len(recognition_cache[sid]) :
                     heap[recognition_cache[sid][i]] \in kept]_vars

\* C36: SimpleAttendanceSystem.process_frame gives a recognized student the
\* status of the Session Window Policy for the time elapsed since the session
\* started: present up to present_window_minutes, late up to
\* present_window_minutes + late_window_minutes, neither after that.
C36_SimpleFollowsWindowPolicy ==
    (simple_call # NoCall /\ simple_call.session_start # Null) =>
       \A i \in 1 .. Len(simple_call.results) :
          simple_call.results[i].marked =>
             attendance_records[simple_call.results[i].student_id].status
                = WindowStatus(simple_call.time - simple_call.session_start[1],
                               present_window_minutes, late_window_minutes)

\* C37: in SimpleAttendanceSystem.process_frame a face reported not live with
\* liveness_score > 0.3 is still passed to recognition, and an entry it creates
\* stores that score; a face reported not live with liveness_score <= 0.3 is
\* never recognized and never creates an entry.
ReportedNotLive(face) ==
    /\ liveness_detector # Null
    /\ face # EmptyRoi
    /\ ~face.liveness.is_live

C37_EachFace ==
    simple_call # NoCall =>
       \A i \in 1 .. Len(simple_call.faces) :
          LET face == simple_call.faces[i]
              result == simple_call.results[i]
          IN ReportedNotLive(face) =>
                IF face.liveness.liveness_score > 30
                THEN /\ result.passed
                     /\ result.student_name =
                           IF face.enc # NoEncoding /\ face.enc.name # None
                           THEN face.enc.name ELSE Unknown
                     /\ result.marked =>
                           attendance_records[result.student_id].liveness_score
                              = face.liveness.liveness_score
                ELSE /\ ~result.passed
                     /\ result.student_name = Unknown
                     /\ ~result.marked

C37_EachNewEntry ==
    \A x \in Students :
       (attendance_records[x] = NoEntry /\ attendance_records'[x] # NoEntry) =>
          /\ simple_call' # NoCall
          /\ \E i \in 1 .. Len(simple_call'.faces) :
                LET face == simple_call'.faces[i]
                IN /\ face # EmptyRoi
                   /\ face.enc # NoEncoding
                   /\ face.enc.id = x
                   /\ ReportedNotLive(face) => face.liveness.liveness_score > 30
                   /\ liveness_detector # Null =>
                         attendance_records'[x].liveness_score
                            = face.liveness.liveness_score

C37_BorderlineLiveness == []C37_EachFace /\ [][C37_EachNewEntry]_vars

\* A face reported not live with score 0.4 was recognized as s1 and its entry
\* holds 0.4.
C37_Witness ==
    /\ simple_call # NoCall
    /\ Len(simple_call.faces) = 1
    /\ ReportedNotLive(simple_call.faces[1])
    /\ simple_call.faces[1].liveness.liveness_score = 40
    /\ simple_call.results[1].marked
    /\ attendance_records["s1"] # NoEntry
    /\ attendance_records["s1"].liveness_score = 40

\* C38: the camera pipeline creates at most one AttendanceRecord per student
\* within one session for any sequence of process_frame calls, also after a
\* failed commit, and process_frame creates no record while no session is
\* active.
C38_OneRowPerStudent ==
    \A s \in SessionIds, x \in Students : RowCount(records, s, x) <= 1

C38_CameraRowsInActiveSession ==
    \A r \in BagToSet(records') :
       (CopiesIn(r, records') > CopiesIn(r, records) /\ ~r.manual_override) =>
          /\ active_session_id # Null
          /\ r.session_id = active_session_id[1]
          /\ RowCount(records, r.session_id, r.student_id) = 0
          /\ RowCount(records', r.session_id, r.student_id) = 1

C38_AtMostOneCameraRecord ==
    []C38_OneRowPerStudent /\ [][C38_CameraRowsInActiveSession]_vars

\* The record of s2 failed to commit once and was created by a later frame.
C38_Witness ==
    /\ active_session_id # Null
    /\ "s2" \in failed_students
    /\ "s2" \in processed_students
    /\ RowCount(records, active_session_id[1], "s2") = 1

\* C39: ResourceManager.cleanup_all terminates for any set of registered
\* resources: a thread inside cleanup_all can always go on unless another
\* thread holds the lock, and when it returns it has released each resource it
\* found once, the registry is empty and the lock is free.
C39_CleanupAllTerminates ==
    \A t \in RmThreads :
       /\ (rm_pc[t] # "idle" /\ rm_call[t].op = "cleanup_all"
              /\ lock \in {Null, Some(t)}) => ENABLED RmStep(t)
       /\ rm_result[t] # NoCall =>
             /\ rm_result[t].released = rm_result[t].snapshot
             /\ rm_result[t].resources = <<>>
             /\ lock # Some(t)

====
